---------------------------- MODULE Spec2Model ----------------------------
(***************************************************************************)
(* A model of the SCCP codec of go-sccp: the parameter codecs of package   *)
(* params (Party Address, Global Title, Data, Segmentation, Importance,    *)
(* Hop Counter, Credit, Protocol Class, End of Optional Parameters), the   *)
(* UDT and XUDT message codecs and the ParseMessage dispatch.              *)
(*                                                                         *)
(* Byte buffers are sequences over 0..255.  A Go index i is the TLA+       *)
(* index i + 1.  uint8 arithmetic wraps modulo 256.  An index or a slice   *)
(* expression out of range is the outcome ErrPanic.  A nil and an empty    *)
(* byte slice are both the empty sequence.  A buffer's capacity is its     *)
(* length.                                                                 *)
(***************************************************************************)
EXTENDS Integers, Sequences, FiniteSets, TLC

VARIABLES
    phase,   \* the step of the scenario that has just been taken
    msg,     \* the message built by NewUDT / NewXUDT, or decoded; Nil if none
    buf,     \* the byte buffer at hand (an encoding, a prefix, a raw buffer)
    dst,     \* the destination buffer handed to MarshalTo, before the call
    out,     \* the destination buffer after MarshalTo / the bytes returned
    err,     \* the error the last operation returned
    res,     \* the message the last decode returned; Nil if none
    nmut     \* the number of bytes of buf overwritten since it was encoded

vars == <<phase, msg, buf, dst, out, err, res, nmut>>

---------------------------------------------------------------------------
(* Values shared by all codecs *)

Nil == [nil |-> TRUE]

ErrNone == [kind |-> "nil", code |-> 0]
ErrUnexpectedEOF == [kind |-> "io.ErrUnexpectedEOF", code |-> 0]
ErrWrappedEOF == [kind |-> "wraps io.ErrUnexpectedEOF", code |-> 0]
ErrPanic == [kind |-> "panic", code |-> 0]
UnsupportedTypeError(v) == [kind |-> "UnsupportedTypeError", code |-> v]
UnsupportedParameterError(v) == [kind |-> "UnsupportedParameterError", code |-> v]

U8(x) == (x + 65536) % 256
Bit(x, k) == (x \div (2 ^ k)) % 2
Min(a, b) == IF a < b THEN a ELSE b

\* a | b on bytes
Or8(a, b) ==
    LET bit(k) == IF Bit(a, k) = 1 \/ Bit(b, k) = 1 THEN 2 ^ k ELSE 0
    IN  bit(0) + bit(1) + bit(2) + bit(3) + bit(4) + bit(5) + bit(6) + bit(7)

\* b[i] of Go
At(b, i) == b[i + 1]

\* b[lo:hi] of Go; the caller checks InRange first
Slice(b, lo, hi) == SubSeq(b, lo + 1, hi)
InRange(b, lo, hi) == 0 <= lo /\ lo <= hi /\ hi <= Len(b)

\* b[i] = v of Go
Put(b, i, v) == [b EXCEPT ![i + 1] = v]

\* copy(b[lo:hi], src) of Go: min(hi - lo, len(src)) bytes
Copy(b, lo, hi, src) ==
    [k \in 1..Len(b) |->
        IF k > lo /\ k <= lo + Min(hi - lo, Len(src)) THEN src[k - lo] ELSE b[k]]

Zeros(n) == [k \in 1..n |-> 0]
Fill(n, v) == [k \in 1..n |-> v]

\* v := e of Go: F is the rest of the function, which reads v
With(e, F(_)) == F(e)

---------------------------------------------------------------------------
(* package params: parameter types and name codes *)

PTypeF == 0
PTypeV == 1
PTypeO == 2

PCodeEndOfOptionalParameters == 0
PCodeCalledPartyAddress == 3
PCodeCallingPartyAddress == 4
PCodeProtocolClass == 5
PCodeCredit == 9
PCodeData == 15
PCodeSegmentation == 16
PCodeHopCounter == 17
PCodeImportance == 18

\* what a Read / Write returns: the error, the count, and the value read or
\* the buffer written
Ret(e, n, v) == [err |-> e, n |-> n, v |-> v]

---------------------------------------------------------------------------
(* Global Title *)

GTINoGT == 0
GTINAIOnly == 1
GTITTOnly == 2
GTITTNPES == 3
GTITTNPESNAI == 4

GlobalTitle(gti, tt, np, es, nai, addr) ==
    [GTI |-> gti, TranslationType |-> tt, NumberingPlan |-> np,
     EncodingScheme |-> es, NatureOfAddressIndicator |-> nai,
     AddressInformation |-> addr]

NewGlobalTitle(gti, tt, np, es, nai, addr) ==
    CASE gti = GTINAIOnly   -> GlobalTitle(gti, 0, 0, 0, nai, addr)
      [] gti = GTITTOnly    -> GlobalTitle(gti, tt, 0, 0, 0, addr)
      [] gti = GTITTNPES    -> GlobalTitle(gti, tt, np, es, 0, addr)
      [] gti = GTITTNPESNAI -> GlobalTitle(gti, tt, np, es, nai, addr)
      [] OTHER              -> GlobalTitle(gti, 0, 0, 0, 0, addr)

\* a header that keeps a place for every sub-field
gtHeaderLenPadded(gti) == IF gti \in 1..4 THEN 3 ELSE 0

\* the leading bytes the indicator mandates
gtHeaderLen(gti) ==
    CASE gti = GTINAIOnly   -> 1
      [] gti = GTITTOnly    -> 1
      [] gti = GTITTNPES    -> 2
      [] gti = GTITTNPESNAI -> 3
      [] OTHER              -> 0

lenByGTI(g) == gtHeaderLen(g.GTI) + Len(g.AddressInformation)

GlobalTitle_MarshalLen(g) == lenByGTI(g)

\* g.Write(b[lo:hi]); returns the header length as the count
GlobalTitle_Write(g, b, lo, hi) ==
    LET l == GlobalTitle_MarshalLen(g)
        b1 == CASE g.GTI = GTINAIOnly -> Put(b, lo, g.NatureOfAddressIndicator)
                [] g.GTI = GTITTOnly  -> Put(b, lo, g.TranslationType)
                [] g.GTI = GTITTNPES  ->
                       Put(Put(b, lo, g.TranslationType), lo + 1,
                           Or8(U8(g.NumberingPlan * 16), g.EncodingScheme))
                [] g.GTI = GTITTNPESNAI ->
                       Put(Put(Put(b, lo, g.TranslationType), lo + 1,
                               Or8(U8(g.NumberingPlan * 16), g.EncodingScheme)),
                           lo + 2, g.NatureOfAddressIndicator)
                [] OTHER -> b
        n == gtHeaderLen(g.GTI)
    IN  IF hi - lo < l
        THEN Ret(ErrUnexpectedEOF, 0, b)
        ELSE Ret(ErrNone, n, Copy(b1, lo + n, lo + l, g.AddressInformation))

\* g.Read(b) on a fresh GlobalTitle{GTI: gti}
GlobalTitle_Read(gti, b) ==
    LET n == gtHeaderLen(gti)
        addr == Slice(b, n, Len(b))
    IN  IF Len(b) < n
        THEN Ret(ErrUnexpectedEOF, 0, Nil)
        ELSE Ret(ErrNone, Len(b),
                 CASE gti = GTINAIOnly -> GlobalTitle(gti, 0, 0, 0, At(b, 0), addr)
                   [] gti = GTITTOnly  -> GlobalTitle(gti, At(b, 0), 0, 0, 0, addr)
                   [] gti = GTITTNPES  ->
                          GlobalTitle(gti, At(b, 0), At(b, 1) \div 16,
                                      At(b, 1) % 16, 0, addr)
                   [] gti = GTITTNPESNAI ->
                          GlobalTitle(gti, At(b, 0), At(b, 1) \div 16,
                                      At(b, 1) % 16, At(b, 2), addr)
                   [] OTHER -> GlobalTitle(gti, 0, 0, 0, 0, addr))

---------------------------------------------------------------------------
(* Party Address *)

NewAddressIndicator(hasPC, hasSSN, routeOnSSN, gti) ==
    Or8(Or8(IF hasPC THEN 1 ELSE 0, IF hasSSN THEN 2 ELSE 0),
        Or8(IF routeOnSSN THEN 64 ELSE 0, U8(gti * 4)))

HasPC(p) == p.Indicator % 2 = 1
HasSSN(p) == (p.Indicator \div 2) % 2 = 1
\* GTI reading three bits of the indicator instead of four
GTIThreeBits(p) == (p.Indicator \div 4) % 8

GTI(p) == (p.Indicator \div 4) % 16
RouteOnGT(p) == (p.Indicator \div 64) % 2 = 0
RouteOnSSN(p) == ~RouteOnGT(p)

PartyAddress_MarshalLen(p) ==
    2 + (IF HasPC(p) THEN 2 ELSE 0) + (IF HasSSN(p) THEN 1 ELSE 0)
      + (IF p.GlobalTitle # Nil THEN GlobalTitle_MarshalLen(p.GlobalTitle) ELSE 0)

SetLength(p) == [p EXCEPT !.length = PartyAddress_MarshalLen(p) - 1]

NewPartyAddress(cdcg, ai, spc, ssn, gt) ==
    LET p == [paramType |-> PTypeV, code |-> cdcg, length |-> 0,
              Indicator |-> ai, SignalingPointCode |-> 0,
              SubsystemNumber |-> 0, GlobalTitle |-> gt]
        p1 == IF HasPC(p) THEN [p EXCEPT !.SignalingPointCode = spc] ELSE p
        p2 == IF HasSSN(p1) THEN [p1 EXCEPT !.SubsystemNumber = ssn] ELSE p1
    IN  SetLength(p2)

NewCalledPartyAddress(ai, spc, ssn, gt) ==
    NewPartyAddress(PCodeCalledPartyAddress, ai, spc, ssn, gt)

NewCallingPartyAddress(ai, spc, ssn, gt) ==
    NewPartyAddress(PCodeCallingPartyAddress, ai, spc, ssn, gt)

\* the last index at which the point code may end: read refuses end >= len(b)
pcEndLimit(b) == Len(b) - 1

\* p.read(b), p a PartyAddress holding paramType and code only
PartyAddress_read(ptype, code, b) ==
    IF Len(b) < 2 THEN Ret(ErrUnexpectedEOF, 0, Nil) ELSE
    With([paramType |-> ptype, code |-> code, length |-> At(b, 0),
          Indicator |-> At(b, 1), SignalingPointCode |-> 0,
          SubsystemNumber |-> 0, GlobalTitle |-> Nil], LAMBDA p0 :
    IF p0.length # Len(b) - 1 THEN Ret(ErrUnexpectedEOF, 2, Nil)
    ELSE IF HasPC(p0) /\ 4 > pcEndLimit(b) THEN Ret(ErrUnexpectedEOF, 2, Nil) ELSE
    With(IF HasPC(p0) THEN 4 ELSE 2, LAMBDA n1 :
    With(IF HasPC(p0)
         THEN [p0 EXCEPT !.SignalingPointCode = At(b, 2) * 256 + At(b, 3)]
         ELSE p0, LAMBDA p1 :
    IF HasSSN(p1) /\ n1 >= Len(b) THEN Ret(ErrPanic, n1, Nil) ELSE
    With(IF HasSSN(p1) THEN n1 + 1 ELSE n1, LAMBDA n2 :
    With(IF HasSSN(p1) THEN [p1 EXCEPT !.SubsystemNumber = At(b, n1)] ELSE p1,
         LAMBDA p2 :
    IF GTI(p2) = 0 THEN Ret(ErrNone, n2, p2) ELSE
    With(GlobalTitle_Read(GTI(p2), Slice(b, n2, p2.length + 1)), LAMBDA g :
    IF g.err # ErrNone THEN Ret(g.err, n2 + g.n, Nil)
    ELSE Ret(ErrNone, n2 + g.n, [p2 EXCEPT !.GlobalTitle = g.v])))))))

\* p.readOptional(b)
PartyAddress_readOptional(b) ==
    IF Len(b) < 3 THEN Ret(ErrUnexpectedEOF, 0, Nil)
    ELSE PartyAddress_read(PTypeO, At(b, 0), Slice(b, 1, Len(b)))

\* p.Read(b), p a PartyAddress holding paramType and code only
PartyAddress_Read(ptype, code, b) ==
    IF ptype = PTypeO THEN PartyAddress_readOptional(b)
    ELSE PartyAddress_read(PTypeV, code, b)

ParseCalledPartyAddress(b) == PartyAddress_Read(PTypeV, PCodeCalledPartyAddress, b)
ParseCallingPartyAddress(b) == PartyAddress_Read(PTypeV, PCodeCallingPartyAddress, b)

\* p.write(b[lo:hi])
PartyAddress_write(p, b, lo, hi) ==
    IF hi - lo < PartyAddress_MarshalLen(p) THEN Ret(ErrUnexpectedEOF, 0, b) ELSE
    LET n2 == IF HasPC(p) THEN 4 ELSE 2
        n3 == IF HasSSN(p) THEN n2 + 1 ELSE n2
    IN
    With(Put(Put(b, lo, U8(p.length)), lo + 1, p.Indicator), LAMBDA b1 :
    With(IF HasPC(p)
         THEN Put(Put(b1, lo + 2, p.SignalingPointCode \div 256),
                  lo + 3, p.SignalingPointCode % 256)
         ELSE b1, LAMBDA b2 :
    With(IF HasSSN(p) THEN Put(b2, lo + n2, p.SubsystemNumber) ELSE b2,
         LAMBDA b3 :
    IF p.GlobalTitle = Nil THEN Ret(ErrNone, n3, b3) ELSE
    With(GlobalTitle_Write(p.GlobalTitle, b3, lo + n3,
                           lo + n3 + GlobalTitle_MarshalLen(p.GlobalTitle)),
         LAMBDA g :
    Ret(g.err, n3 + g.n, g.v)))))

\* p.writeOptional(b[lo:hi])
PartyAddress_writeOptional(p, b, lo, hi) ==
    IF hi - lo < PartyAddress_MarshalLen(p) THEN Ret(ErrUnexpectedEOF, 0, b) ELSE
    With(PartyAddress_write(p, Put(b, lo, p.code), lo + 1, hi), LAMBDA w :
    Ret(w.err, w.n + 1, w.v))

\* p.Write(b[lo:hi])
PartyAddress_Write(p, b, lo, hi) ==
    IF p.paramType = PTypeV THEN PartyAddress_write(p, b, lo, hi)
    ELSE PartyAddress_writeOptional(p, b, lo, hi)

---------------------------------------------------------------------------
(* Fixed one-byte parameters: Protocol Class, Hop Counter *)

\* the fields every one-byte parameter holds
Param(ptype, code, length, value) ==
    [paramType |-> ptype, code |-> code, length |-> length, value |-> value]

NewProtocolClass(cls, returnOnError) ==
    Param(PTypeF, PCodeProtocolClass, 1,
          IF returnOnError THEN Or8(U8(cls), 128) ELSE U8(cls))

Class(p) == p.value % 16
\* ReturnOnError answering for a clear high bit
ReturnOnErrorWhenClear(p) == p.value \div 128 = 0

ReturnOnError(p) == p.value \div 128 = 1

\* p.Read(b) on a fresh ProtocolClass{}
ProtocolClass_Read(b) ==
    IF Len(b) < 1 THEN Ret(ErrUnexpectedEOF, 0, Nil)
    ELSE Ret(ErrNone, 1, Param(PTypeF, PCodeProtocolClass, 1, At(b, 0)))

\* p.Write(b[lo:hi])
ProtocolClass_Write(p, b, lo, hi) ==
    IF hi - lo < p.length THEN Ret(ErrUnexpectedEOF, 0, b)
    ELSE IF hi - lo < 1 THEN Ret(ErrPanic, 0, b)
    ELSE Ret(ErrNone, p.length, Put(b, lo, p.value))

NewHopCounter(v) == Param(PTypeF, PCodeHopCounter, 1, v)

\* h.read(b)
HopCounter_read(b) ==
    IF Len(b) < 1 THEN Ret(ErrUnexpectedEOF, 0, Nil)
    ELSE Ret(ErrNone, 1, Param(PTypeF, PCodeHopCounter, 1, At(b, 0)))

\* h.readOptional(b)
HopCounter_readOptional(b) ==
    IF Len(b) < 3 THEN Ret(ErrUnexpectedEOF, 0, Nil)
    ELSE Ret(ErrNone, 3, Param(PTypeO, At(b, 0), At(b, 1), At(b, 2)))

\* h.Read(b), h a HopCounter holding paramType only
HopCounter_Read(ptype, b) ==
    IF ptype = PTypeO THEN HopCounter_readOptional(b) ELSE HopCounter_read(b)

\* h.write(b[lo:hi])
HopCounter_write(h, b, lo, hi) ==
    IF hi - lo < h.length THEN Ret(ErrUnexpectedEOF, 0, b)
    ELSE IF hi - lo < 1 THEN Ret(ErrPanic, 0, b)
    ELSE Ret(ErrNone, h.length, Put(b, lo, h.value))

\* h.writeOptional(b[lo:hi])
HopCounter_writeOptional(h, b, lo, hi) ==
    IF hi - lo < h.length THEN Ret(ErrUnexpectedEOF, 0, b)
    ELSE IF hi - lo < 3 THEN Ret(ErrPanic, 0, b)
    ELSE Ret(ErrNone, h.length,
             Put(Put(Put(b, lo, h.code), lo + 1, U8(h.length)), lo + 2, h.value))

\* h.Write(b[lo:hi])
HopCounter_Write(h, b, lo, hi) ==
    IF h.paramType = PTypeO THEN HopCounter_writeOptional(h, b, lo, hi)
    ELSE HopCounter_write(h, b, lo, hi)

---------------------------------------------------------------------------
(* Credit, in the optional form the optional block reads *)

\* c.readOptional(b) on Credit{paramType: PTypeO}: a short buffer is no error
Credit_readOptional(b) ==
    IF Len(b) < 3 THEN Ret(ErrNone, 0, Param(PTypeO, 0, 0, 0))
    ELSE Ret(ErrNone, 3, Param(PTypeO, At(b, 0), At(b, 1), At(b, 2)))

---------------------------------------------------------------------------
(* Data *)

DataParam(ptype, code, length, value) ==
    [paramType |-> ptype, code |-> code, length |-> length, value |-> value]

NewData(v) == DataParam(PTypeV, PCodeData, Len(v), v)

\* the count d.read reports when it has read a value
dataReadCount(b, length) == Len(b)

\* d.read(b), d a Data holding paramType only
Data_read(ptype, b) ==
    LET n == Len(b) IN
    IF n < 1 THEN Ret(ErrUnexpectedEOF, 0, Nil)
    ELSE LET length == At(b, 0) IN
         IF length = 0 THEN Ret(ErrNone, 1, DataParam(ptype, PCodeData, 0, <<>>))
         ELSE IF n < length + 1 THEN Ret(ErrUnexpectedEOF, 1, Nil)
         ELSE Ret(ErrNone, dataReadCount(b, length),
                  DataParam(ptype, PCodeData, length, Slice(b, 1, length + 1)))

\* d.readOptional(b); b is not empty
Data_readOptional(b) ==
    With(Data_read(PTypeO, Slice(b, 1, Len(b))), LAMBDA r :
    Ret(r.err, Len(b) + r.n, r.v))

\* d.Read(b), d a Data holding paramType only
Data_Read(ptype, b) ==
    IF ptype = PTypeO THEN Data_readOptional(b)
    ELSE Data_read(PTypeV, b)

ParseData(b) == Data_Read(PTypeF, b)

Data_MarshalLen(d) ==
    IF d.paramType = PTypeO THEN 2 + Len(d.value) ELSE 1 + Len(d.value)

\* d.write(b[lo:hi])
Data_write(d, b, lo, hi) ==
    IF hi - lo < d.length + 1 THEN Ret(ErrUnexpectedEOF, 0, b)
    ELSE IF d.length = 0 THEN Ret(ErrNone, 1, Put(b, lo, 0))
    ELSE Ret(ErrNone, d.length,
             Copy(Put(b, lo, U8(d.length)), lo + 1, lo + d.length + 1, d.value))

\* d.writeOptional(b[lo:hi])
Data_writeOptional(d, b, lo, hi) ==
    IF hi - lo < d.length THEN Ret(ErrUnexpectedEOF, 0, b)
    ELSE IF hi - lo < 2 THEN Ret(ErrPanic, 0, b)
    ELSE Ret(ErrNone, d.length,
             Copy(Put(Put(b, lo, d.code), lo + 1, U8(d.length)), lo + 2, hi, d.value))

\* d.Write(b[lo:hi])
Data_Write(d, b, lo, hi) ==
    IF d.paramType = PTypeO THEN Data_writeOptional(d, b, lo, hi)
    ELSE Data_write(d, b, lo, hi)

---------------------------------------------------------------------------
(* Segmentation, Importance, End of Optional Parameters *)

\* utils.Uint32To24 / utils.Uint24To32: a 24-bit value as 3 big-endian bytes
Uint32To24(v) == <<(v \div 65536) % 256, (v \div 256) % 256, v % 256>>
Uint24To32(b) == b[1] * 65536 + b[2] * 256 + b[3]

SegmentationParam(ptype, code, length, first, cls, rem, lrn) ==
    [paramType |-> ptype, code |-> code, length |-> length,
     FirstSegment |-> first, Class |-> cls, RemainingSegments |-> rem,
     LocalReference |-> lrn]

NewSegmentation(first, cls, rem, lrn) ==
    SegmentationParam(PTypeO, PCodeSegmentation, 4, first, cls % 2, rem % 16,
                      lrn % 16777216)

\* s.Read(b)
Segmentation_Read(b) ==
    IF Len(b) < 6 THEN Ret(ErrUnexpectedEOF, 0, Nil)
    ELSE Ret(ErrNone, 6,
             SegmentationParam(PTypeO, At(b, 0), At(b, 1),
                               Bit(At(b, 2), 7) = 1, Bit(At(b, 2), 6),
                               At(b, 2) % 16, Uint24To32(Slice(b, 3, 6))))

\* the bits of RemainingSegments that s.Write puts into the third byte
segRemBits(rem) == rem % 8

\* the third byte s.Write leaves: it ORs the fields into what b holds there
segFlagsByte(prior, s) ==
    Or8(Or8(prior, IF s.FirstSegment THEN 128 ELSE 0),
        Or8((s.Class % 2) * 64, segRemBits(s.RemainingSegments)))

\* s.Write(b[lo:hi])
Segmentation_Write(s, b, lo, hi) ==
    LET n == s.length + 2 IN
    IF hi - lo < n THEN Ret(ErrUnexpectedEOF, 0, b)
    ELSE IF hi - lo < 3 THEN Ret(ErrPanic, 0, b)
    ELSE Ret(ErrNone, n,
             Copy(Put(Put(Put(b, lo, s.code), lo + 1, U8(s.length)),
                      lo + 2, segFlagsByte(At(b, lo + 2), s)),
                  lo + 3, hi, Uint32To24(s.LocalReference)))

Segmentation_MarshalLen(s) == s.length + 2

NewImportance(v) == Param(PTypeO, PCodeImportance, 1, v % 8)

\* i.Read(b)
Importance_Read(b) ==
    IF Len(b) < 3 THEN Ret(ErrUnexpectedEOF, 0, Nil)
    ELSE Ret(ErrNone, 3, Param(PTypeO, At(b, 0), At(b, 1), At(b, 2) % 8))

\* i.Write(b[lo:hi])
Importance_Write(i, b, lo, hi) ==
    LET n == i.length + 2 IN
    IF hi - lo < n THEN Ret(ErrUnexpectedEOF, 0, b)
    ELSE IF hi - lo < 3 THEN Ret(ErrPanic, 0, b)
    ELSE Ret(ErrNone, n,
             Put(Put(Put(b, lo, i.code), lo + 1, U8(i.length)), lo + 2, i.value))

Importance_MarshalLen(i) == i.length + 2

NewEndOfOptionalParameters == Param(PTypeO, PCodeEndOfOptionalParameters, 1, 0)

\* e.Read(b)
EndOfOptionalParameters_Read(b) ==
    IF Len(b) < 1 THEN Ret(ErrUnexpectedEOF, 0, Nil)
    ELSE Ret(ErrNone, 1, Param(PTypeO, PCodeEndOfOptionalParameters, 1, At(b, 0)))

\* e.Write(b[lo:hi])
EndOfOptionalParameters_Write(e, b, lo, hi) ==
    IF hi - lo < e.length THEN Ret(ErrUnexpectedEOF, 0, b)
    ELSE IF hi - lo < 1 THEN Ret(ErrPanic, 0, b)
    ELSE Ret(ErrNone, e.length, Put(b, lo, e.value))

EndOfOptionalParameters_MarshalLen(e) == e.length

---------------------------------------------------------------------------
(* Sequencing/Segmenting *)

PCodeSequencingSegmenting == 8

SequencingSegmentingParam(snd, rcv, more) ==
    [paramType |-> PTypeF, code |-> PCodeSequencingSegmenting, length |-> 2,
     SendSequenceNumber |-> snd, ReceiveSequenceNumber |-> rcv,
     MoreData |-> more]

NewSequencingSegmenting(snd, rcv, moreData) ==
    SequencingSegmentingParam(snd % 128, rcv % 128, moreData)

\* s.Read(b) on a fresh SequencingSegmenting
SequencingSegmenting_Read(b) ==
    IF Len(b) < 2 THEN Ret(ErrUnexpectedEOF, 0, Nil)
    ELSE Ret(ErrNone, 2,
             SequencingSegmentingParam(At(b, 0) - (At(b, 0) % 2),
                                       At(b, 1) - (At(b, 1) % 2),
                                       (At(b, 1) % 2) = 1))

\* s.Write(b[lo:hi])
SequencingSegmenting_Write(s, b, lo, hi) ==
    IF hi - lo < s.length THEN Ret(ErrUnexpectedEOF, 0, b)
    ELSE IF hi - lo < 2 THEN Ret(ErrPanic, 0, b)
    ELSE Ret(ErrNone, s.length,
             Put(Put(b, lo, s.SendSequenceNumber), lo + 1,
                 IF s.MoreData THEN Or8(s.ReceiveSequenceNumber, 1)
                 ELSE s.ReceiveSequenceNumber))

SequencingSegmenting_MarshalLen(s) == s.length

---------------------------------------------------------------------------
(* The optional-parameter block *)

\* a Parameter: the Go type of the value and the value
Opt(type, p) == [type |-> type, p |-> p]

Tagged(type, r) == Ret(r.err, r.n, IF r.err = ErrNone THEN Opt(type, r.v) ELSE Nil)

ParseOptionalParameter(b) ==
    IF Len(b) < 1 THEN Ret(ErrUnexpectedEOF, 0, Nil)
    ELSE LET t == At(b, 0) IN
         CASE t = PCodeEndOfOptionalParameters ->
                  Tagged("EndOfOptionalParameters", EndOfOptionalParameters_Read(b))
           [] t = PCodeCalledPartyAddress \/ t = PCodeCallingPartyAddress ->
                  Tagged("PartyAddress", PartyAddress_Read(PTypeO, t, b))
           [] t = PCodeCredit -> Tagged("Credit", Credit_readOptional(b))
           [] t = PCodeData -> Tagged("Data", Data_Read(PTypeO, b))
           [] t = PCodeSegmentation -> Tagged("Segmentation", Segmentation_Read(b))
           [] t = PCodeHopCounter -> Tagged("HopCounter", HopCounter_Read(PTypeO, b))
           [] t = PCodeImportance -> Tagged("Importance", Importance_Read(b))
           [] OTHER -> Ret(UnsupportedParameterError(t), 0, Nil)

\* the loop of ParseOptionalParameters, from cursor offset with params read
RECURSIVE optionalLoop(_, _, _)
optionalLoop(b, offset, params) ==
    IF Len(b) = 0 THEN Ret(ErrNone, offset, params)
    ELSE IF offset > Len(b) THEN Ret(ErrPanic, offset, <<>>) ELSE
    With(ParseOptionalParameter(Slice(b, offset, Len(b))), LAMBDA r :
    IF r.err # ErrNone THEN Ret(r.err, offset, <<>>)
    ELSE IF r.v.p.code = PCodeEndOfOptionalParameters
         THEN Ret(ErrNone, offset, Append(params, r.v))
         ELSE optionalLoop(b, offset + r.n, Append(params, r.v)))

\* ParseOptionalParameters reading the first parameter only
ParseOptionalParametersFirstOnly(b) ==
    IF Len(b) = 0 THEN Ret(ErrNone, 0, <<>>) ELSE
    With(ParseOptionalParameter(b), LAMBDA r :
    IF r.err # ErrNone THEN Ret(r.err, 0, <<>>) ELSE Ret(ErrNone, 0, <<r.v>>))

ParseOptionalParameters(b) == optionalLoop(b, 0, <<>>)

---------------------------------------------------------------------------
(* package sccp: UDT *)

MsgTypeUDT == 9
MsgTypeXUDT == 17

\* what MarshalTo leaves: the error and the destination buffer
MRet(e, b) == [err |-> e, b |-> b]
\* what a decoder returns: the error and the message, Nil on an error
PRet(e, m) == [err |-> e, m |-> IF e = ErrNone THEN m ELSE Nil]

\* the pointer that follows pointer ptr over a field of fieldLen bytes
nextPtr(ptr, fieldLen) == U8(ptr + U8(fieldLen) - 1)

NewUDT(pcls, retOnErr, cdpa, cgpa, data) ==
    LET ptr1 == 3
        ptr2 == nextPtr(ptr1, PartyAddress_MarshalLen(cdpa))
        ptr3 == nextPtr(ptr2, PartyAddress_MarshalLen(cgpa))
    IN  [kind |-> "UDT", Type |-> MsgTypeUDT,
         ProtocolClass |-> NewProtocolClass(pcls, retOnErr),
         CalledPartyAddress |-> cdpa, CallingPartyAddress |-> cgpa,
         Data |-> NewData(data),
         ptr1 |-> ptr1, ptr2 |-> ptr2, ptr3 |-> ptr3]

UDT_MarshalLen(u) ==
    5 + u.ptr3 - 1 + (IF u.Data # Nil THEN Data_MarshalLen(u.Data) ELSE 0)

\* the shortest destination UDT.MarshalTo writes anything into
udtMinLen == 5

UDT_MarshalTo(u, b) ==
    LET l == Len(b) IN
    IF l < udtMinLen THEN MRet(ErrUnexpectedEOF, b) ELSE
    With(ProtocolClass_Write(u.ProtocolClass, Put(b, 0, u.Type), 1, l), LAMBDA w1 :
    IF w1.err # ErrNone THEN MRet(w1.err, w1.v) ELSE
    LET n == 1 + w1.n
        cdpaEnd == U8(u.ptr2 + 3)
        cgpaEnd == U8(u.ptr3 + 4)
    IN
    With(Put(w1.v, n, u.ptr1), LAMBDA b1 :
    IF l < u.ptr1 THEN MRet(ErrUnexpectedEOF, b1) ELSE
    With(Put(b1, n + 1, u.ptr2), LAMBDA b2 :
    IF l < U8(u.ptr2 + 3) THEN MRet(ErrUnexpectedEOF, b2) ELSE
    With(Put(b2, n + 2, u.ptr3), LAMBDA b3 :
    IF l < U8(u.ptr3 + 5) THEN MRet(ErrUnexpectedEOF, b3)
    ELSE IF ~InRange(b3, n + 3, cdpaEnd) THEN MRet(ErrPanic, b3) ELSE
    With(PartyAddress_Write(u.CalledPartyAddress, b3, n + 3, cdpaEnd), LAMBDA w2 :
    IF w2.err # ErrNone THEN MRet(w2.err, w2.v)
    ELSE IF ~InRange(w2.v, cdpaEnd, cgpaEnd) THEN MRet(ErrPanic, w2.v) ELSE
    With(PartyAddress_Write(u.CallingPartyAddress, w2.v, cdpaEnd, cgpaEnd),
         LAMBDA w3 :
    IF w3.err # ErrNone THEN MRet(w3.err, w3.v)
    ELSE IF ~InRange(w3.v, cgpaEnd, l) THEN MRet(ErrPanic, w3.v) ELSE
    With(Data_Write(u.Data, w3.v, cgpaEnd, l), LAMBDA w4 :
    MRet(w4.err, w4.v))))))))

\* make([]byte, MarshalLen()) and MarshalTo; the bytes are Nil on an error
UDT_MarshalBinary(u) ==
    With(UDT_MarshalTo(u, Zeros(UDT_MarshalLen(u))), LAMBDA w :
    MRet(w.err, IF w.err = ErrNone THEN w.b ELSE <<>>))

UDT_UnmarshalBinary(b) ==
    LET l == Len(b) IN
    IF l <= 5 THEN PRet(ErrUnexpectedEOF, Nil) ELSE
    With(ProtocolClass_Read(Slice(b, 1, l)), LAMBDA pc :
    IF pc.err # ErrNone THEN PRet(pc.err, Nil) ELSE
    LET offset == 1 + pc.n
        ptr1 == At(b, offset)
        ptr2 == At(b, offset + 1)
        ptr3 == At(b, offset + 2)
        offsetPtr1 == 2 + ptr1
        offsetPtr2 == 3 + ptr2
        offsetPtr3 == 4 + ptr3
    IN
    IF l < offsetPtr1 + 1 \/ l < offsetPtr2 + 1 \/ l < offsetPtr3 + 1
    THEN PRet(ErrUnexpectedEOF, Nil) ELSE
    LET cdpaEnd == offsetPtr1 + At(b, offsetPtr1) + 1
        cgpaEnd == offsetPtr2 + At(b, offsetPtr2) + 1
        dataEnd == offsetPtr3 + At(b, offsetPtr3) + 1
    IN
    IF l < cdpaEnd \/ l < cgpaEnd \/ l < dataEnd
    THEN PRet(ErrUnexpectedEOF, Nil) ELSE
    With(ParseCalledPartyAddress(Slice(b, offsetPtr1, cdpaEnd)), LAMBDA cd :
    IF cd.err # ErrNone THEN PRet(cd.err, Nil) ELSE
    With(ParseCallingPartyAddress(Slice(b, offsetPtr2, cgpaEnd)), LAMBDA cg :
    IF cg.err # ErrNone THEN PRet(cg.err, Nil) ELSE
    With(Data_Read(PTypeF, Slice(b, offsetPtr3, dataEnd)), LAMBDA d :
    IF d.err # ErrNone THEN PRet(d.err, Nil) ELSE
    PRet(ErrNone,
         [kind |-> "UDT", Type |-> At(b, 0), ProtocolClass |-> pc.v,
          CalledPartyAddress |-> cd.v, CallingPartyAddress |-> cg.v,
          Data |-> d.v, ptr1 |-> ptr1, ptr2 |-> ptr2, ptr3 |-> ptr3])))))

ParseUDT(b) == UDT_UnmarshalBinary(b)

UDT_MessageType(u) == MsgTypeUDT

---------------------------------------------------------------------------
(* package sccp: XUDT *)

\* the value x.<field> holds after the loop over opts: the last parameter of
\* that code, which must be of the field's Go type; Nil if there is none
RECURSIVE lastOpt(_, _, _)
lastOpt(opts, code, k) ==
    IF k = 0 THEN Nil
    ELSE IF opts[k].p.code = code THEN opts[k].p
    ELSE lastOpt(opts, code, k - 1)

optType(code) ==
    CASE code = PCodeSegmentation -> "Segmentation"
      [] code = PCodeImportance -> "Importance"
      [] code = PCodeEndOfOptionalParameters -> "EndOfOptionalParameters"
      [] OTHER -> "none"

\* a type assertion opt.(*T) of the loop fails
optsPanic(opts) ==
    \E k \in 1..Len(opts) :
        /\ optType(opts[k].p.code) # "none"
        /\ optType(opts[k].p.code) # opts[k].type

\* the 4th pointer NewXUDT sets when optional parameters are given
xudtPtr4(ptr3, d) == nextPtr(ptr3, Data_MarshalLen(d))

NewXUDT(pcls, retOnErr, hc, cdpa, cgpa, data, opts) ==
    LET ptr1 == 4
        ptr2 == nextPtr(ptr1, PartyAddress_MarshalLen(cdpa))
        ptr3 == nextPtr(ptr2, PartyAddress_MarshalLen(cgpa))
        d == NewData(data)
    IN  [kind |-> "XUDT", Type |-> MsgTypeXUDT,
         ProtocolClass |-> NewProtocolClass(pcls, retOnErr),
         HopCounter |-> NewHopCounter(hc),
         CalledPartyAddress |-> cdpa, CallingPartyAddress |-> cgpa,
         Data |-> d,
         Segmentation |-> lastOpt(opts, PCodeSegmentation, Len(opts)),
         Importance |-> lastOpt(opts, PCodeImportance, Len(opts)),
         EndOfOptionalParameters |->
             IF Len(opts) > 0 THEN NewEndOfOptionalParameters ELSE Nil,
         ptr1 |-> ptr1, ptr2 |-> ptr2, ptr3 |-> ptr3,
         ptr4 |-> IF Len(opts) > 0 THEN xudtPtr4(ptr3, d) ELSE 0]

XUDT_MarshalLen(x) ==
    IF x.ptr4 # 0
    THEN 7 + x.ptr4 - 1
           + (IF x.Segmentation # Nil
              THEN Segmentation_MarshalLen(x.Segmentation) ELSE 0)
           + (IF x.Importance # Nil
              THEN Importance_MarshalLen(x.Importance) ELSE 0)
           + (IF x.EndOfOptionalParameters # Nil
              THEN EndOfOptionalParameters_MarshalLen(x.EndOfOptionalParameters)
              ELSE 0)
    ELSE 7 + x.ptr3 - 2 + (IF x.Data # Nil THEN Data_MarshalLen(x.Data) ELSE 0)

\* the optional parameters XUDT.MarshalTo writes from offset on
xudtWriteOptionals(x, b, offset) ==
    LET l == Len(b) IN
    With(IF x.Segmentation # Nil
         THEN Segmentation_Write(x.Segmentation, b, offset, l)
         ELSE Ret(ErrNone, 0, b), LAMBDA w1 :
    IF w1.err # ErrNone THEN MRet(w1.err, w1.v)
    ELSE IF offset + w1.n > l THEN MRet(ErrPanic, w1.v) ELSE
    With(IF x.Importance # Nil
         THEN Importance_Write(x.Importance, w1.v, offset + w1.n, l)
         ELSE Ret(ErrNone, 0, w1.v), LAMBDA w2 :
    IF w2.err # ErrNone THEN MRet(w2.err, w2.v)
    ELSE IF offset + w1.n + w2.n > l THEN MRet(ErrPanic, w2.v) ELSE
    With(IF x.EndOfOptionalParameters # Nil
         THEN EndOfOptionalParameters_Write(x.EndOfOptionalParameters,
                                            w2.v, offset + w1.n + w2.n, l)
         ELSE Ret(ErrNone, 0, w2.v), LAMBDA w3 :
    MRet(w3.err, w3.v))))

XUDT_MarshalTo(x, b) ==
    LET l == Len(b) IN
    IF l < 5 THEN MRet(ErrUnexpectedEOF, b) ELSE
    With(ProtocolClass_Write(x.ProtocolClass, Put(b, 0, x.Type), 1, l), LAMBDA w1 :
    IF w1.err # ErrNone THEN MRet(w1.err, w1.v) ELSE
    With(HopCounter_Write(x.HopCounter, w1.v, 1 + w1.n, l), LAMBDA w0 :
    IF w0.err # ErrNone THEN MRet(w0.err, w0.v) ELSE
    LET n == 1 + w1.n + w0.n
        cdpaEnd == U8(x.ptr2 + 4)
        cgpaEnd == U8(x.ptr3 + 5)
        dataEnd == U8(x.ptr4 + 6)
    IN
    With(Put(w0.v, n, x.ptr1), LAMBDA b1 :
    IF l < x.ptr1 THEN MRet(ErrUnexpectedEOF, b1) ELSE
    With(Put(b1, n + 1, x.ptr2), LAMBDA b2 :
    IF l < U8(x.ptr2 + 4) THEN MRet(ErrUnexpectedEOF, b2)
    ELSE IF l < n + 3 THEN MRet(ErrPanic, b2) ELSE
    With(Put(b2, n + 2, x.ptr3), LAMBDA b3 :
    IF l < U8(x.ptr3 + 5) THEN MRet(ErrUnexpectedEOF, b3)
    ELSE IF l < n + 4 THEN MRet(ErrPanic, b3) ELSE
    With(Put(b3, n + 3, x.ptr4), LAMBDA b4 :
    IF l < U8(x.ptr4 + 6) THEN MRet(ErrUnexpectedEOF, b4)
    ELSE IF ~InRange(b4, n + 4, cdpaEnd) THEN MRet(ErrPanic, b4) ELSE
    With(PartyAddress_Write(x.CalledPartyAddress, b4, n + 4, cdpaEnd), LAMBDA w2 :
    IF w2.err # ErrNone THEN MRet(w2.err, w2.v)
    ELSE IF ~InRange(w2.v, cdpaEnd, cgpaEnd) THEN MRet(ErrPanic, w2.v) ELSE
    With(PartyAddress_Write(x.CallingPartyAddress, w2.v, cdpaEnd, cgpaEnd),
         LAMBDA w3 :
    IF w3.err # ErrNone THEN MRet(w3.err, w3.v)
    ELSE IF ~InRange(w3.v, cgpaEnd, l) THEN MRet(ErrPanic, w3.v) ELSE
    With(Data_Write(x.Data, w3.v, cgpaEnd, l), LAMBDA w4 :
    IF w4.err # ErrNone THEN MRet(w4.err, w4.v)
    ELSE IF x.ptr4 = 0 THEN MRet(ErrNone, w4.v)
    ELSE xudtWriteOptionals(x, w4.v, dataEnd))))))))))

XUDT_MarshalBinary(x) ==
    With(XUDT_MarshalTo(x, Zeros(XUDT_MarshalLen(x))), LAMBDA w :
    MRet(w.err, IF w.err = ErrNone THEN w.b ELSE <<>>))

\* the optional block of a decoded XUDT
xudtReadOptionals(x, b, dataEnd) ==
    With(ParseOptionalParameters(Slice(b, dataEnd, Len(b))), LAMBDA o :
    IF o.err # ErrNone THEN PRet(o.err, Nil)
    ELSE IF optsPanic(o.v) THEN PRet(ErrPanic, Nil)
    ELSE PRet(ErrNone,
              [x EXCEPT
                 !.Segmentation = lastOpt(o.v, PCodeSegmentation, Len(o.v)),
                 !.Importance = lastOpt(o.v, PCodeImportance, Len(o.v)),
                 !.EndOfOptionalParameters =
                     lastOpt(o.v, PCodeEndOfOptionalParameters, Len(o.v))]))

XUDT_UnmarshalBinary(b) ==
    LET l == Len(b) IN
    IF l <= 5 THEN PRet(ErrUnexpectedEOF, Nil) ELSE
    With(ProtocolClass_Read(Slice(b, 1, l)), LAMBDA pc :
    IF pc.err # ErrNone THEN PRet(pc.err, Nil) ELSE
    With(HopCounter_Read(PTypeF, Slice(b, 1 + pc.n, l)), LAMBDA hc :
    IF hc.err # ErrNone THEN PRet(hc.err, Nil) ELSE
    LET offset == 1 + pc.n + hc.n
        ptr1 == At(b, offset)
        ptr2 == At(b, offset + 1)
        ptr3 == At(b, offset + 2)
    IN
    IF l < ptr1 THEN PRet(ErrUnexpectedEOF, Nil)
    ELSE IF l < U8(ptr2 + 4) THEN PRet(ErrUnexpectedEOF, Nil)
    ELSE IF l < U8(ptr3 + 5) THEN PRet(ErrUnexpectedEOF, Nil)
    ELSE IF l < offset + 4 THEN PRet(ErrPanic, Nil) ELSE
    LET ptr4 == At(b, offset + 3)
        cdpaEnd == U8(ptr2 + 4)
        cgpaEnd == U8(ptr3 + 5)
        dataEnd == U8(ptr4 + 6)
    IN
    IF ptr4 # 0 /\ l < ptr4 + 7 THEN PRet(ErrUnexpectedEOF, Nil)
    ELSE IF ~InRange(b, offset + 4, cdpaEnd) THEN PRet(ErrPanic, Nil) ELSE
    With(ParseCalledPartyAddress(Slice(b, offset + 4, cdpaEnd)), LAMBDA cd :
    IF cd.err # ErrNone THEN PRet(cd.err, Nil)
    ELSE IF ~InRange(b, cdpaEnd, cgpaEnd) THEN PRet(ErrPanic, Nil) ELSE
    With(ParseCallingPartyAddress(Slice(b, cdpaEnd, cgpaEnd)), LAMBDA cg :
    IF cg.err # ErrNone THEN PRet(cg.err, Nil) ELSE
    With(ParseData(Slice(b, cgpaEnd, l)), LAMBDA d :
    IF d.err # ErrNone THEN PRet(d.err, Nil) ELSE
    With([kind |-> "XUDT", Type |-> At(b, 0), ProtocolClass |-> pc.v,
          HopCounter |-> hc.v,
          CalledPartyAddress |-> cd.v, CallingPartyAddress |-> cg.v,
          Data |-> d.v, Segmentation |-> Nil, Importance |-> Nil,
          EndOfOptionalParameters |-> Nil,
          ptr1 |-> ptr1, ptr2 |-> ptr2, ptr3 |-> ptr3, ptr4 |-> ptr4], LAMBDA x :
    IF ptr4 = 0 THEN PRet(ErrNone, x)
    ELSE xudtReadOptionals(x, b, dataEnd)))))))

ParseXUDT(b) == XUDT_UnmarshalBinary(b)

XUDT_MessageType(x) == MsgTypeXUDT

---------------------------------------------------------------------------
(* package sccp: dispatch *)

\* ParseMessage with the XUDT case handing the buffer to the UDT decoder
ParseMessageXUDTAsUDT(b) ==
    IF Len(b) < 1 THEN PRet(ErrWrappedEOF, Nil)
    ELSE CASE At(b, 0) = MsgTypeUDT -> UDT_UnmarshalBinary(b)
           [] At(b, 0) = MsgTypeXUDT -> UDT_UnmarshalBinary(b)
           [] OTHER -> PRet(UnsupportedTypeError(At(b, 0)), Nil)

ParseMessage(b) ==
    IF Len(b) < 1 THEN PRet(ErrWrappedEOF, Nil)
    ELSE CASE At(b, 0) = MsgTypeUDT -> UDT_UnmarshalBinary(b)
           [] At(b, 0) = MsgTypeXUDT -> XUDT_UnmarshalBinary(b)
           [] OTHER -> PRet(UnsupportedTypeError(At(b, 0)), Nil)

MarshalLen(m) == IF m.kind = "UDT" THEN UDT_MarshalLen(m) ELSE XUDT_MarshalLen(m)
MarshalTo(m, b) == IF m.kind = "UDT" THEN UDT_MarshalTo(m, b) ELSE XUDT_MarshalTo(m, b)
MarshalBinary(m) ==
    IF m.kind = "UDT" THEN UDT_MarshalBinary(m) ELSE XUDT_MarshalBinary(m)
MessageType(m) == IF m.kind = "UDT" THEN UDT_MessageType(m) ELSE XUDT_MessageType(m)
Parse(kind, b) == IF kind = "UDT" THEN ParseUDT(b) ELSE ParseXUDT(b)

---------------------------------------------------------------------------
(* package sccp: SCMG, the SCCP management message *)

SCMGTypeSSC == 6

NewSCMG(typ, assn, apc, smi, scl) ==
    [kind |-> "SCMG", Type |-> typ, AffectedSSN |-> assn, AffectedPC |-> apc,
     SubsystemMultiplicityIndicator |-> smi, SCCPCongestionLevel |-> scl]

\* MarshalLen without the congestion level of SSC
SCMG_MarshalLenFive(s) == 5

SCMG_MarshalLen(s) == IF s.Type = SCMGTypeSSC THEN 5 + 1 ELSE 5

\* the affected point code is written and read low byte first
SCMG_MarshalTo(s, b) ==
    IF Len(b) < SCMG_MarshalLen(s) THEN MRet(ErrUnexpectedEOF, b)
    ELSE IF Len(b) < 5 THEN MRet(ErrPanic, b) ELSE
    With(Put(Put(Put(Put(Put(b, 0, s.Type), 1, s.AffectedSSN),
                     2, s.AffectedPC % 256), 3, s.AffectedPC \div 256),
             4, s.SubsystemMultiplicityIndicator), LAMBDA b5 :
    IF s.Type # SCMGTypeSSC THEN MRet(ErrNone, b5)
    ELSE IF Len(b) < 6 THEN MRet(ErrPanic, b5)
    ELSE MRet(ErrNone, Put(b5, 5, s.SCCPCongestionLevel)))

SCMG_MarshalBinary(s) ==
    With(SCMG_MarshalTo(s, Zeros(SCMG_MarshalLen(s))), LAMBDA w :
    MRet(w.err, IF w.err = ErrNone THEN w.b ELSE <<>>))

SCMG_UnmarshalBinary(b) ==
    IF Len(b) < 5 THEN PRet(ErrUnexpectedEOF, Nil)
    ELSE IF At(b, 0) = SCMGTypeSSC /\ Len(b) < 6 THEN PRet(ErrUnexpectedEOF, Nil)
    ELSE PRet(ErrNone,
              NewSCMG(At(b, 0), At(b, 1), At(b, 2) + 256 * At(b, 3), At(b, 4),
                      IF At(b, 0) = SCMGTypeSSC THEN At(b, 5) ELSE 0))

ParseSCMG(b) == SCMG_UnmarshalBinary(b)

---------------------------------------------------------------------------
(* package sccp: the connection-oriented messages CR, CC, RLC, DT1, and     *)
(* the params they use: LocalReference, Optional and the PartyAddress of    *)
(* params/party-address.go.  Their lengths and offsets are uint8.           *)

\* what a decoder of these messages returns, and its input buffer b as the
\* call leaves it
CRet(e, m, b) == [err |-> e, m |-> IF e = ErrNone THEN m ELSE Nil, b |-> b]

ErrLocalReference == [kind |-> "invalid local reference length", code |-> 0]

DataTag == 15
CdPtyAddrTag == 3
CgPtyAddrTag == 4

\* lr.Read(b[lo:hi]): it stores lr.Value into the bytes it is handed
LocalReference_Read(value, b, lo, hi) ==
    IF hi - lo # 3 THEN MRet(ErrLocalReference, b)
    ELSE MRet(ErrNone,
              Put(Put(Put(b, lo, (value \div 65536) % 256),
                      lo + 1, (value \div 256) % 256),
                  lo + 2, value % 256))

\* g.UnmarshalBinary(b) on a fresh GlobalTitle{GTI: gti}
GlobalTitle_UnmarshalBinary(gti, b) ==
    With(GlobalTitle_Read(gti, b), LAMBDA r : PRet(r.err, r.v))

\* ParsePartyAddress(b) of params/party-address.go
ParsePartyAddress(b) ==
    IF Len(b) < 2 THEN PRet(ErrUnexpectedEOF, Nil)
    ELSE IF At(b, 0) >= Len(b) THEN PRet(ErrUnexpectedEOF, Nil) ELSE
    With([Length |-> At(b, 0), Indicator |-> At(b, 1), SignalingPointCode |-> 0,
          SubsystemNumber |-> 0, GlobalTitle |-> Nil], LAMBDA p0 :
    IF HasPC(p0) /\ 4 >= Len(b) THEN PRet(ErrUnexpectedEOF, Nil) ELSE
    With(IF HasPC(p0) THEN 4 ELSE 2, LAMBDA o1 :
    IF HasSSN(p0) /\ o1 >= Len(b) THEN PRet(ErrPanic, Nil) ELSE
    With(IF HasSSN(p0) THEN o1 + 1 ELSE o1, LAMBDA o2 :
    With([p0 EXCEPT
            !.SignalingPointCode =
                IF HasPC(p0) THEN At(b, 2) * 256 + At(b, 3) ELSE 0,
            !.SubsystemNumber = IF HasSSN(p0) THEN At(b, o1) ELSE 0],
         LAMBDA p1 :
    IF GTI(p1) = 0 THEN PRet(ErrNone, p1)
    ELSE IF ~InRange(b, o2, p1.Length + 1) THEN PRet(ErrPanic, Nil) ELSE
    With(GlobalTitle_UnmarshalBinary(GTI(p1), Slice(b, o2, p1.Length + 1)),
         LAMBDA g :
    IF g.err # ErrNone THEN PRet(g.err, Nil)
    ELSE PRet(ErrNone, [p1 EXCEPT !.GlobalTitle = g.m]))))))

Optional(t, l, v) == [Tag |-> t, Len |-> l, Value |-> v]

\* msg.parseOptional(b) of CC and CR, from the cursor p on: m is the message
\* so far, addrTag and addrField the party address this message type reads
RECURSIVE connParseOptional(_, _, _, _, _)
connParseOptional(m, b, p, addrTag, addrField) ==
    IF ~(p < U8(Len(b))) THEN PRet(ErrNone, m)
    ELSE IF At(b, p) = 0 THEN PRet(ErrNone, m)
    ELSE IF U8(p + 1) >= U8(Len(b)) THEN PRet(ErrUnexpectedEOF, Nil) ELSE
    With(At(b, U8(p + 1)), LAMBDA l :
    IF U8(p + 1 + l) >= U8(Len(b)) THEN PRet(ErrUnexpectedEOF, Nil)
    ELSE IF ~InRange(b, U8(p + 2), U8(p + 2 + l)) THEN PRet(ErrPanic, Nil) ELSE
    With(Optional(At(b, p), l, Slice(b, U8(p + 2), U8(p + 2 + l))), LAMBDA o :
    With(IF o.Tag = DataTag THEN [m EXCEPT !.Data = o] ELSE m, LAMBDA m1 :
    IF o.Tag = addrTag /\ o.Tag # DataTag
    THEN IF ~InRange(b, p, U8(p + 2 + l)) THEN PRet(ErrPanic, Nil) ELSE
         With(ParsePartyAddress(Slice(b, p, U8(p + 2 + l))), LAMBDA a :
         IF a.err # ErrNone THEN PRet(a.err, Nil)
         ELSE connParseOptional(
                  [m1 EXCEPT ![addrField] = a.m, !.Opts = Append(@, o)],
                  b, U8(p + 2 + l), addrTag, addrField))
    ELSE connParseOptional([m1 EXCEPT !.Opts = Append(@, o)],
                           b, U8(p + 2 + l), addrTag, addrField))))

\* msg.UnmarshalBinary(b) on a fresh CC
CC_UnmarshalBinary(b) ==
    IF U8(Len(b)) < 1 + 3 + 3 + 1 + 1 THEN CRet(ErrUnexpectedEOF, Nil, b) ELSE
    With([kind |-> "CC", Type |-> At(b, 0),
          DestinationLocalReference |-> Uint24To32(Slice(b, 1, 4)),
          SourceLocalReference |-> Uint24To32(Slice(b, 4, 7)),
          ProtocolClass |-> At(b, 7), Opts |-> <<>>, Data |-> Nil,
          CalledPartyAddress |-> Nil], LAMBDA m :
    IF At(b, 8) = 0 THEN CRet(ErrNone, m, b)
    ELSE IF At(b, 8) # 1 THEN CRet(ErrUnexpectedEOF, Nil, b) ELSE
    With(connParseOptional(m, Slice(b, 9, Len(b)), 0, CdPtyAddrTag,
                           "CalledPartyAddress"), LAMBDA r :
    IF r.err = ErrNone THEN CRet(ErrNone, r.m, b)
    ELSE IF r.err = ErrPanic THEN CRet(ErrPanic, Nil, b)
    ELSE CRet(ErrUnexpectedEOF, Nil, b)))

ParseCC(b) == CC_UnmarshalBinary(b)

RECURSIVE optsLen(_)
optsLen(opts) ==
    IF opts = <<>> THEN 0 ELSE Head(opts).Len + 2 + optsLen(Tail(opts))

CC_MarshalLen(c) ==
    IF Len(c.Opts) = 0 THEN 9 ELSE 10 + optsLen(c.Opts)

\* the loop of MarshalTo over msg.Opts, from the uint8 cursor p on
RECURSIVE connWriteOpts(_, _, _)
connWriteOpts(opts, b, p) ==
    IF opts = <<>> THEN MRet(ErrNone, b)
    ELSE IF p >= Len(b) THEN MRet(ErrPanic, b)
    ELSE IF U8(p + 1) >= Len(b) THEN MRet(ErrPanic, Put(b, p, Head(opts).Tag))
    ELSE IF U8(p + 2) > Len(b)
         THEN MRet(ErrPanic, Put(Put(b, p, Head(opts).Tag),
                                 U8(p + 1), Head(opts).Len))
    ELSE connWriteOpts(Tail(opts),
                       Copy(Put(Put(b, p, Head(opts).Tag),
                                U8(p + 1), Head(opts).Len),
                            U8(p + 2), Len(b), Head(opts).Value),
                       U8(p + Head(opts).Len + 2))

\* msg.MarshalTo(b) of CC
CC_MarshalTo(c, b) ==
    IF Len(b) < 8 THEN MRet(ErrPanic, b) ELSE
    With(Put(Copy(Copy(Put(b, 0, c.Type), 1, 4,
                       Uint32To24(c.DestinationLocalReference)),
                  4, 7, Uint32To24(c.SourceLocalReference)),
             7, c.ProtocolClass), LAMBDA b1 :
    IF Len(c.Opts) = 0 THEN MRet(ErrNone, b1)
    ELSE IF Len(b) < 9 THEN MRet(ErrPanic, b1)
    ELSE connWriteOpts(c.Opts, Put(b1, 8, 1), 9))

CC_MarshalBinary(c) ==
    With(CC_MarshalTo(c, Zeros(CC_MarshalLen(c))), LAMBDA w :
    MRet(w.err, IF w.err = ErrNone THEN w.b ELSE <<>>))

\* msg.UnmarshalBinary(b) on a fresh RLC
RLC_UnmarshalBinary(b) ==
    IF U8(Len(b)) # 7 THEN CRet(ErrUnexpectedEOF, Nil, b)
    ELSE CRet(ErrNone,
              [kind |-> "RLC", Type |-> At(b, 0),
               DestinationLocalReference |-> Uint24To32(Slice(b, 1, 4)),
               SourceLocalReference |-> Uint24To32(Slice(b, 4, Len(b)))], b)

ParseRLC(b) == RLC_UnmarshalBinary(b)

RLC_MarshalLen(c) == 7

\* msg.MarshalTo(b) of RLC
RLC_MarshalTo(c, b) ==
    IF Len(b) < 4 THEN MRet(ErrPanic, b)
    ELSE MRet(ErrNone,
              Copy(Copy(Put(b, 0, c.Type), 1, 4,
                        Uint32To24(c.DestinationLocalReference)),
                   4, Len(b), Uint32To24(c.SourceLocalReference)))

RLC_MarshalBinary(c) ==
    With(RLC_MarshalTo(c, Zeros(RLC_MarshalLen(c))), LAMBDA w :
    MRet(w.err, IF w.err = ErrNone THEN w.b ELSE <<>>))

\* msg.UnmarshalBinary(b) on a fresh DT1: the fresh message's
\* DestinationLocalReference, of value 0, is handed b[1:4]
DT1_UnmarshalBinary(b) ==
    IF U8(Len(b)) <= 1 + 3 + 1 + 1 THEN CRet(ErrUnexpectedEOF, Nil, b) ELSE
    With(LocalReference_Read(0, b, 1, 4), LAMBDA r :
    IF r.err # ErrNone THEN CRet(r.err, Nil, r.b)
    ELSE IF At(r.b, 5) # 1 THEN CRet(ErrUnexpectedEOF, Nil, r.b)
    ELSE IF U8(Len(b)) # U8(At(r.b, 6) + 6 + 1)
         THEN CRet(ErrUnexpectedEOF, Nil, r.b)
    ELSE CRet(ErrNone,
              [kind |-> "DT1", Type |-> At(r.b, 0),
               DestinationLocalReference |-> 0, Segmenting |-> At(r.b, 4),
               Data |-> Slice(r.b, 7, Len(b))], r.b))

ParseDT1(b) == DT1_UnmarshalBinary(b)

\* msg.UnmarshalBinary(b) on a fresh CR: the fresh message's
\* SourceLocalReference, of value 0, is handed b[1:4]
CR_UnmarshalBinary(b) ==
    IF U8(Len(b)) <= 1 + 3 + 1 + 2 + 3 THEN CRet(ErrUnexpectedEOF, Nil, b) ELSE
    With(LocalReference_Read(0, b, 1, 4).b, LAMBDA b1 :
    With([kind |-> "CR", Type |-> At(b1, 0), SourceLocalReference |-> 0,
          ProtocolClass |-> At(b1, 4), CalledPartyAddress |-> Nil,
          Opts |-> <<>>, Data |-> Nil, CallingPartyAddress |-> Nil,
          mptr |-> At(b1, 5), optr |-> At(b1, 6)], LAMBDA m :
    IF U8(Len(b)) < U8(5 + m.mptr + 2) THEN CRet(ErrUnexpectedEOF, Nil, b1)
    ELSE IF U8(Len(b)) < U8(6 + m.optr + 1) THEN CRet(ErrUnexpectedEOF, Nil, b1)
    ELSE IF ~InRange(b1, U8(5 + m.mptr), U8(6 + m.optr))
         THEN CRet(ErrPanic, Nil, b1) ELSE
    With(ParsePartyAddress(Slice(b1, U8(5 + m.mptr), U8(6 + m.optr))),
         LAMBDA a :
    IF a.err # ErrNone THEN CRet(a.err, Nil, b1)
    ELSE IF ~InRange(b1, U8(6 + m.optr), Len(b1)) THEN CRet(ErrPanic, Nil, b1)
    ELSE
    With(connParseOptional([m EXCEPT !.CalledPartyAddress = a.m],
                           Slice(b1, U8(6 + m.optr), Len(b1)), 0,
                           CgPtyAddrTag, "CallingPartyAddress"), LAMBDA r :
    CRet(r.err, r.m, b1)))))

ParseCR(b) == CR_UnmarshalBinary(b)

---------------------------------------------------------------------------
(* Inputs of the scenarios *)

MaxInfoLen == 2      \* Global Title digits of an ordinary address, in bytes
MaxDataLen == 2      \* longest ordinary payload
MaxPayload == 255    \* longest payload a Data parameter can carry
MaxCorrupt == 2      \* edits applied to a raw buffer before it is decoded
ExtraDst == 1        \* bytes a destination may have beyond MarshalLen

AddrInfo(n) == [k \in 1..n |-> (34 * k - 1) % 256]
Payload(n) == [k \in 1..n |-> (k * 37 + 185) % 256]

AddrOf(cdcg, pc, ssn, gti, n) ==
    NewPartyAddress(cdcg, NewAddressIndicator(pc, ssn, FALSE, gti), 405, 6,
                    IF gti = GTINoGT THEN Nil
                    ELSE NewGlobalTitle(gti, 0, 1, 2, 4, AddrInfo(n)))

\* every combination of point-code bit, subsystem-number bit and indicator
FullAddrs(cdcg) ==
    {AddrOf(cdcg, pc, ssn, gti, n) :
        pc \in BOOLEAN, ssn \in BOOLEAN, gti \in GTINoGT..GTITTNPESNAI,
        n \in {MaxInfoLen}}

\* the addresses without a Global Title
PlainAddrs(cdcg) ==
    {AddrOf(cdcg, pc, ssn, GTINoGT, 0) : pc \in BOOLEAN, ssn \in BOOLEAN}

\* the address of the repository's short test vector: indicator 0x42
BaseAddr(cdcg, ssn) == NewPartyAddress(cdcg, 66, 0, ssn, Nil)

\* an address of 250 bytes, the longest being 256
LongAddr(cdcg) == AddrOf(cdcg, FALSE, FALSE, GTITTNPESNAI, 245)

AddrPairs ==
    (FullAddrs(PCodeCalledPartyAddress) \X PlainAddrs(PCodeCallingPartyAddress))
      \cup
    (PlainAddrs(PCodeCalledPartyAddress) \X FullAddrs(PCodeCallingPartyAddress))

LongAddrPairs ==
    {<<LongAddr(PCodeCalledPartyAddress), BaseAddr(PCodeCallingPartyAddress, 7)>>,
     <<BaseAddr(PCodeCalledPartyAddress, 6), LongAddr(PCodeCallingPartyAddress)>>}

BasePair ==
    <<BaseAddr(PCodeCalledPartyAddress, 6), BaseAddr(PCodeCallingPartyAddress, 7)>>

\* payload lengths at which the 4th pointer of an XUDT with two base addresses
\* is 250, is 253 and is 256, and the longest payload
LongDataLens == {242, 245, 248, MaxPayload}

SegOpt(rem, lrn) == Opt("Segmentation", NewSegmentation(TRUE, 1, rem, lrn))
ImpOpt == Opt("Importance", NewImportance(2))
EopOpt == Opt("EndOfOptionalParameters", NewEndOfOptionalParameters)

OptLists ==
    {<<>>, <<SegOpt(2, 16777215)>>, <<ImpOpt>>, <<SegOpt(2, 16777215), ImpOpt>>,
     <<ImpOpt, SegOpt(2, 16777215)>>, <<EopOpt>>, <<SegOpt(9, 16777215)>>}

DstFills == {255}
CorruptBytes == {0, 1, 2, 9, 255}

---------------------------------------------------------------------------
(* Scenario 1: a message is built, then encoded, decoded, decoded from a   *)
(* strict prefix of its encoding, or marshalled into a caller's buffer     *)

Init ==
    /\ phase = "start"
    /\ msg = Nil
    /\ buf = <<>>
    /\ dst = <<>>
    /\ out = <<>>
    /\ err = ErrNone
    /\ res = Nil
    /\ nmut = 0

Built(m) ==
    /\ phase = "start"
    /\ phase' = "built"
    /\ msg' = m
    /\ UNCHANGED <<buf, dst, out, err, res, nmut>>

BuildUDT ==
    \E pair \in AddrPairs, pc \in {<<1, TRUE>>, <<0, FALSE>>},
       n \in {0, MaxDataLen} :
        Built(NewUDT(pc[1], pc[2], pair[1], pair[2], Payload(n)))

BuildXUDT ==
    \E pair \in AddrPairs, n \in {0, MaxDataLen}, opts \in OptLists :
        Built(NewXUDT(1, TRUE, 2, pair[1], pair[2], Payload(n), opts))

BuildLongUDT ==
    \/ \E pair \in LongAddrPairs : Built(NewUDT(1, TRUE, pair[1], pair[2], <<>>))
    \/ Built(NewUDT(1, TRUE, BasePair[1], BasePair[2], Payload(MaxPayload)))

BuildLongXUDT ==
    \E opts \in {<<>>, <<SegOpt(2, 16777215), ImpOpt>>, <<SegOpt(2, 0), ImpOpt>>} :
        \/ \E pair \in LongAddrPairs :
              Built(NewXUDT(1, TRUE, 2, pair[1], pair[2], <<>>, opts))
        \/ \E n \in LongDataLens :
              Built(NewXUDT(1, TRUE, 2, BasePair[1], BasePair[2], Payload(n), opts))

\* b, err := msg.MarshalBinary()
DoMarshalBinary ==
    /\ phase = "built"
    /\ \E r \in {MarshalBinary(msg)} :
           /\ out' = r.b
           /\ buf' = r.b
           /\ err' = r.err
    /\ phase' = "encoded"
    /\ UNCHANGED <<msg, dst, res, nmut>>

\* res, err := ParseUDT(buf) or ParseXUDT(buf), buf the encoding of msg
DoParse ==
    /\ phase = "encoded"
    /\ err = ErrNone
    /\ \E r \in {Parse(msg.kind, buf)} :
           /\ res' = r.m
           /\ err' = r.err
    /\ phase' = "decoded"
    /\ UNCHANGED <<msg, buf, dst, out, nmut>>

\* res, err := ParseUDT(e[:i]) or ParseXUDT(e[:i]), e the encoding of msg
DoParsePrefix ==
    /\ phase = "encoded"
    /\ err = ErrNone
    /\ \E i \in 0..(Len(out) - 1) :
         \E r \in {Parse(msg.kind, Slice(out, 0, i))} :
             /\ buf' = Slice(out, 0, i)
             /\ res' = r.m
             /\ err' = r.err
    /\ phase' = "prefix"
    /\ UNCHANGED <<msg, dst, out, nmut>>

\* err := msg.MarshalTo(dst), dst of any length up to MarshalLen + ExtraDst
DoMarshalTo ==
    /\ phase = "built"
    /\ \E n \in 0..(MarshalLen(msg) + ExtraDst), fill \in DstFills :
         \E r \in {MarshalTo(msg, Fill(n, fill))} :
             /\ dst' = Fill(n, fill)
             /\ out' = r.b
             /\ err' = r.err
    /\ phase' = "marshalTo"
    /\ UNCHANGED <<msg, buf, res, nmut>>

Next ==
    \/ BuildUDT
    \/ BuildXUDT
    \/ BuildLongUDT
    \/ BuildLongXUDT
    \/ DoMarshalBinary
    \/ DoParse
    \/ DoParsePrefix
    \/ DoMarshalTo

Spec == Init /\ [][Next]_vars

---------------------------------------------------------------------------
(* Scenario 2: a raw buffer, an encoding with up to MaxCorrupt edits, is   *)
(* decoded, and what was decoded is encoded again                          *)

Seeds ==
    {MarshalBinary(NewUDT(1, TRUE, BasePair[1], BasePair[2], <<>>)).b,
     MarshalBinary(NewXUDT(1, TRUE, 2, BasePair[1], BasePair[2], Payload(1),
                           <<SegOpt(2, 16777215), ImpOpt>>)).b}

InitRaw ==
    /\ phase = "raw"
    /\ msg = Nil
    /\ buf \in Seeds
    /\ dst = <<>>
    /\ out = <<>>
    /\ err = ErrNone
    /\ res = Nil
    /\ nmut = 0

Edited(b) ==
    /\ phase = "raw"
    /\ nmut < MaxCorrupt
    /\ buf' = b
    /\ nmut' = nmut + 1
    /\ UNCHANGED <<phase, msg, dst, out, err, res>>

\* one byte of the buffer is overwritten
Corrupt == \E i \in 1..(Len(buf) - 1), v \in CorruptBytes : Edited(Put(buf, i, v))

\* the buffer is cut short
Truncate == \E n \in 0..(Len(buf) - 1) : Edited(Slice(buf, 0, n))

\* the message type byte is overwritten
SetType == \E v \in 0..255 : Len(buf) > 0 /\ Edited(Put(buf, 0, v))

Parsed(p, r) ==
    /\ phase = "raw"
    /\ phase' = p
    /\ res' = r.m
    /\ err' = r.err
    /\ UNCHANGED <<msg, buf, dst, out, nmut>>

DoParseMessage == Parsed("ParseMessage", ParseMessage(buf))
DoParseUDT == Parsed("ParseUDT", ParseUDT(buf))
DoParseXUDT == Parsed("ParseXUDT", ParseXUDT(buf))

\* out, err := res.MarshalBinary(), res the message just decoded
DoRemarshal ==
    /\ phase \in {"ParseMessage", "ParseUDT", "ParseXUDT"}
    /\ err = ErrNone
    /\ \E r \in {MarshalBinary(res)} :
           /\ out' = r.b
           /\ err' = r.err
    /\ phase' = "remarshal"
    /\ UNCHANGED <<msg, buf, dst, res, nmut>>

NextRaw ==
    \/ Corrupt
    \/ Truncate
    \/ SetType
    \/ DoParseMessage
    \/ DoParseUDT
    \/ DoParseXUDT
    \/ DoRemarshal

SpecRaw == InitRaw /\ [][NextRaw]_vars

---------------------------------------------------------------------------
(* Scenario 3: the parameter codecs on their own.  An optional block, a    *)
(* Party Address, an address indicator, a Protocol Class, a Segmentation   *)
(* or an SCMG message is built, then written and read back                 *)

MaxTail == 2         \* bytes that follow an unknown tag in a block

KnownTags ==
    {PCodeEndOfOptionalParameters, PCodeCalledPartyAddress,
     PCodeCallingPartyAddress, PCodeCredit, PCodeData, PCodeSegmentation,
     PCodeHopCounter, PCodeImportance}
UnknownTags == (0..255) \ KnownTags

HopOpt == Opt("HopCounter", Param(PTypeO, PCodeHopCounter, 1, 5))
DataOpt == Opt("Data", DataParam(PTypeO, PCodeData, 2, <<170, 187>>))
AddrOpt(cdcg) == Opt("PartyAddress", [BaseAddr(cdcg, 6) EXCEPT !.paramType = PTypeO])

\* the bytes of one optional parameter, written by its own Write
OptBytes(o) ==
    CASE o.type = "Segmentation" ->
             Segmentation_Write(o.p, Zeros(Segmentation_MarshalLen(o.p)), 0,
                                Segmentation_MarshalLen(o.p)).v
      [] o.type = "Importance" ->
             Importance_Write(o.p, Zeros(Importance_MarshalLen(o.p)), 0,
                              Importance_MarshalLen(o.p)).v
      [] o.type = "HopCounter" -> HopCounter_Write(o.p, Zeros(3), 0, 3).v
      [] o.type = "Data" ->
             Data_Write(o.p, Zeros(Data_MarshalLen(o.p)), 0, Data_MarshalLen(o.p)).v
      [] o.type = "PartyAddress" ->
             PartyAddress_Write(o.p, Zeros(PartyAddress_MarshalLen(o.p) + 1), 0,
                                PartyAddress_MarshalLen(o.p) + 1).v
      [] OTHER -> EndOfOptionalParameters_Write(o.p, Zeros(1), 0, 1).v

RECURSIVE BlockBytes(_)
BlockBytes(os) ==
    IF os = <<>> THEN <<>> ELSE OptBytes(Head(os)) \o BlockBytes(Tail(os))

\* well-formed parameters that stand before the tail of a block
OptPrefixes ==
    {<<>>, <<SegOpt(2, 16777215)>>, <<ImpOpt>>, <<SegOpt(2, 16777215), ImpOpt>>,
     <<HopOpt, ImpOpt>>}

\* one whole optional parameter of every supported tag
WholeParams ==
    {OptBytes(SegOpt(2, 16777215)), OptBytes(ImpOpt), OptBytes(HopOpt),
     OptBytes(DataOpt), OptBytes(AddrOpt(PCodeCalledPartyAddress)),
     OptBytes(AddrOpt(PCodeCallingPartyAddress)), <<PCodeCredit, 1, 7>>}

\* an XUDT up to the end of its Data field, with a 4th pointer to what follows
XudtHead ==
    SubSeq(MarshalBinary(NewXUDT(1, TRUE, 2, BasePair[1], BasePair[2],
                                 Payload(1), <<ImpOpt>>)).b, 1, 15)

InitParams ==
    /\ phase = "start"
    /\ msg = Nil
    /\ buf = <<>>
    /\ dst = <<>>
    /\ out = <<>>
    /\ err = ErrNone
    /\ res = Nil
    /\ nmut = 0

\* an input of a codec: what it was made from, and its bytes if it has any
Given(p, m, b) ==
    /\ phase = "start"
    /\ phase' = p
    /\ msg' = m
    /\ buf' = b
    /\ UNCHANGED <<dst, out, err, res, nmut>>

Block(case, tag, pre, tail) ==
    Given("block", [case |-> case, tag |-> tag, pre |-> pre],
          BlockBytes(pre) \o tail)

\* a block in which a tag outside the supported ones stands at a boundary
BuildUnknownTag ==
    \E pre \in OptPrefixes, t \in UnknownTags, k \in 0..MaxTail :
        Block("unknown", t, pre, <<t>> \o Payload(k))

\* a block that ends with its last parameter, without a terminator
BuildExhausted ==
    \E pre \in OptPrefixes \ {<<>>} : Block("exhausted", 0, pre, <<>>)

\* a block that ends with the terminator
BuildTerminated ==
    \E pre \in OptPrefixes, k \in 0..MaxTail :
        Block("terminated", 0, pre, OptBytes(EopOpt) \o Payload(k))

\* a block that ends in the middle of a parameter
BuildTruncated ==
    \E pre \in OptPrefixes, whole \in WholeParams :
        \E k \in 1..(Len(whole) - 1) :
            Block("truncated", whole[1], pre, SubSeq(whole, 1, k))

\* the outcome of a codec call: the error, and the whole of what it returned
Done(from, p, r) ==
    /\ phase = from
    /\ phase' = p
    /\ res' = r
    /\ err' = r.err
    /\ UNCHANGED <<msg, buf, dst, out, nmut>>

\* params, n, err := ParseOptionalParameters(buf)
DoParseOptionalParameters ==
    Done("block", "ParseOptionalParameters", ParseOptionalParameters(buf))

\* x, err := ParseXUDT(b), b an XUDT whose optional block is buf
DoParseXUDTBlock == Done("block", "ParseXUDTBlock", ParseXUDT(XudtHead \o buf))

\* what may follow one whole parameter: nothing, the terminator, or another
\* parameter
AfterWhole == {<<>>, OptBytes(EopOpt), OptBytes(ImpOpt)}

\* one whole optional parameter of a supported tag and what follows it
BuildWhole ==
    \E whole \in WholeParams, after \in AfterWhole :
        Given("param", [whole |-> whole, after |-> after], whole \o after)

\* p, n, err := ParseOptionalParameter(buf)
DoParseOptionalParameter ==
    Done("param", "ParseOptionalParameter", ParseOptionalParameter(buf))

\* a Global Title of every indicator that has one
BuildTitle ==
    \E g \in GTINAIOnly..GTITTNPESNAI, n \in {0, MaxInfoLen} :
        Given("title", [g |-> g, n |-> n,
                        t |-> NewGlobalTitle(g, 9, 1, 2, 4, AddrInfo(n))], <<>>)

\* n, err := g.Write(b), b := make([]byte, g.MarshalLen())
DoWriteTitle ==
    /\ phase = "title"
    /\ \E r \in {GlobalTitle_Write(msg.t, Zeros(GlobalTitle_MarshalLen(msg.t)),
                                   0, GlobalTitle_MarshalLen(msg.t))} :
           /\ buf' = r.v
           /\ err' = r.err
    /\ phase' = "titleWritten"
    /\ UNCHANGED <<msg, dst, out, res, nmut>>

\* a slice of any length up to the longest header and MaxInfoLen more
BuildRawTitle ==
    \E g \in GTINAIOnly..GTITTNPESNAI, k \in 0..(3 + MaxInfoLen) :
        Given("rawTitle", [g |-> g], Payload(k))

\* n, err := g.Read(buf), g := &GlobalTitle{GTI: gti}
DoReadTitle == Done("rawTitle", "titleRead", GlobalTitle_Read(msg.g, buf))

MaxRawAddr == 3      \* bytes after the indicator of a raw Party Address

\* what an address is made from: the indicator bits and the digits
AddrArgs ==
    [hasPC : BOOLEAN, hasSSN : BOOLEAN, routeOnSSN : BOOLEAN,
     gti : GTINoGT..GTITTNPESNAI, n : {0, MaxInfoLen}]

\* the Global Title of the same indicator, supplied exactly when gti # 0
TitleOf(a) ==
    IF a.gti = GTINoGT THEN Nil
    ELSE NewGlobalTitle(a.gti, 9, 1, 2, 4, AddrInfo(a.n))

AddrFrom(cdcg, a) ==
    NewPartyAddress(cdcg,
                    NewAddressIndicator(a.hasPC, a.hasSSN, a.routeOnSSN, a.gti),
                    405, 6, TitleOf(a))

\* an address built by NewCalledPartyAddress / NewCallingPartyAddress
BuildAddress ==
    \E cdcg \in {PCodeCalledPartyAddress, PCodeCallingPartyAddress},
       a \in AddrArgs :
        /\ a.gti = GTINoGT => a.n = 0
        /\ Given("address", [args |-> a, p |-> AddrFrom(cdcg, a)], <<>>)

\* n, err := p.Write(b), b := make([]byte, p.MarshalLen())
DoWriteAddress ==
    /\ phase = "address"
    /\ \E r \in {PartyAddress_Write(msg.p, Zeros(PartyAddress_MarshalLen(msg.p)),
                                    0, PartyAddress_MarshalLen(msg.p))} :
           /\ buf' = r.v
           /\ err' = r.err
    /\ phase' = "addressWritten"
    /\ UNCHANGED <<msg, dst, out, res, nmut>>

\* p, n, err := ParseCalledPartyAddress(buf) or ParseCallingPartyAddress(buf)
DoReadAddress ==
    /\ err = ErrNone
    /\ Done("addressWritten", "addressRead",
            PartyAddress_Read(PTypeV, msg.p.code, buf))

\* a raw variable-form address: a length byte, an indicator and k more bytes
BuildRawAddress ==
    \E k \in 0..MaxRawAddr, lb \in 0..(MaxRawAddr + 2),
       a \in {x \in AddrArgs : x.n = 0} :
        Given("rawAddress", [args |-> a],
              <<lb, NewAddressIndicator(a.hasPC, a.hasSSN, a.routeOnSSN, a.gti)>>
                  \o AddrInfo(k))

DoReadRawAddress ==
    Done("rawAddress", "rawAddressRead", ParseCalledPartyAddress(buf))

\* an address whose indicator is NewAddressIndicator(hasPC, hasSSN, routeOnSSN, gti)
DoIndicator ==
    \E hasPC \in BOOLEAN, hasSSN \in BOOLEAN, routeOnSSN \in BOOLEAN,
       gti \in 0..15 :
        /\ Given("indicator",
                 [hasPC |-> hasPC, hasSSN |-> hasSSN, routeOnSSN |-> routeOnSSN,
                  gti |-> gti,
                  p |-> NewCalledPartyAddress(
                            NewAddressIndicator(hasPC, hasSSN, routeOnSSN, gti),
                            0, 0, Nil)], <<>>)

\* an address with any indicator byte
DoIndicatorByte ==
    \E ai \in 0..255 :
        Given("indicatorByte", [p |-> NewCalledPartyAddress(ai, 0, 0, Nil)], <<>>)

\* the Protocol Class of a class number and a flag
DoProtocolClass ==
    \E cls \in 0..15, r \in BOOLEAN :
        Given("protocolClass",
              [cls |-> cls, r |-> r, p |-> NewProtocolClass(cls, r)], <<>>)

\* the Protocol Class read from any byte
DoProtocolClassByte ==
    \E v \in 0..255 :
        Given("protocolClassByte", [p |-> ProtocolClass_Read(<<v>>).v], <<v>>)

LocalRefs == {0, 1, 1193046, 16777215}

BuildSegmentation ==
    \E first \in BOOLEAN, cls \in {0, 1}, rem \in 0..15, lrn \in LocalRefs :
        Given("segmentation",
              [first |-> first, cls |-> cls, rem |-> rem, lrn |-> lrn,
               p |-> NewSegmentation(first, cls, rem, lrn)], <<>>)

\* n, err := s.Write(b), b := make([]byte, s.MarshalLen())
DoWriteSegmentation ==
    /\ phase = "segmentation"
    /\ \E r \in {Segmentation_Write(msg.p, Zeros(Segmentation_MarshalLen(msg.p)),
                                    0, Segmentation_MarshalLen(msg.p))} :
           /\ buf' = r.v
           /\ err' = r.err
    /\ phase' = "segmentationWritten"
    /\ UNCHANGED <<msg, dst, out, res, nmut>>

\* n, err := s.Read(buf) on a fresh Segmentation
DoReadSegmentation ==
    /\ err = ErrNone
    /\ Done("segmentationWritten", "segmentationRead", Segmentation_Read(buf))

BuildSCMG ==
    \E typ \in 0..7, scl \in {3, 8} :
        Given("scmg", NewSCMG(typ, 8, 4660, 1, scl), <<>>)

\* b, err := msg.MarshalBinary()
DoSCMGMarshalBinary ==
    /\ phase = "scmg"
    /\ \E r \in {SCMG_MarshalBinary(msg)} :
           /\ out' = r.b
           /\ buf' = r.b
           /\ err' = r.err
    /\ phase' = "scmgEncoded"
    /\ UNCHANGED <<msg, dst, res, nmut>>

\* err := msg.MarshalTo(dst), dst of any length up to MarshalLen + ExtraDst
DoSCMGMarshalTo ==
    /\ phase = "scmg"
    /\ \E n \in 0..(SCMG_MarshalLen(msg) + ExtraDst), fill \in DstFills :
         \E r \in {SCMG_MarshalTo(msg, Fill(n, fill))} :
             /\ dst' = Fill(n, fill)
             /\ out' = r.b
             /\ err' = r.err
    /\ phase' = "scmgMarshalTo"
    /\ UNCHANGED <<msg, buf, res, nmut>>

\* s, err := ParseSCMG(e[:i]), e the encoding of msg
DoParseSCMG ==
    /\ phase = "scmgEncoded"
    /\ err = ErrNone
    /\ \E i \in 0..Len(out) :
         \E r \in {ParseSCMG(Slice(out, 0, i))} :
             /\ buf' = Slice(out, 0, i)
             /\ res' = r
             /\ err' = r.err
    /\ phase' = "scmgParsed"
    /\ UNCHANGED <<msg, dst, out, nmut>>

\* a field of a built address is assigned, and SetLength is not called
ChangeAddress ==
    /\ phase = "address"
    /\ \/ \E hasPC \in BOOLEAN, hasSSN \in BOOLEAN :
              msg' = [p |-> [msg.p EXCEPT !.Indicator =
                                NewAddressIndicator(hasPC, hasSSN,
                                                    msg.args.routeOnSSN,
                                                    msg.args.gti)]]
       \/ \E a \in {x \in AddrArgs : x.gti = GTITTNPESNAI /\ x.hasPC /\ x.hasSSN
                                       /\ x.routeOnSSN} :
              msg' = [p |-> [msg.p EXCEPT !.GlobalTitle = TitleOf(a)]]
       \/ msg' = [p |-> [msg.p EXCEPT !.GlobalTitle = Nil]]
       \/ msg' = [p |-> [msg.p EXCEPT !.SignalingPointCode = 4660,
                                       !.SubsystemNumber = 8]]
    /\ phase' = "changed"
    /\ UNCHANGED <<buf, dst, out, err, res, nmut>>

\* n, err := p.Write(b), b := make([]byte, p.MarshalLen())
Written(from, to, p) ==
    /\ phase = from
    /\ \E r \in {PartyAddress_Write(p, Zeros(PartyAddress_MarshalLen(p)),
                                    0, PartyAddress_MarshalLen(p))} :
           /\ out' = r.v
           /\ err' = r.err
    /\ phase' = to
    /\ UNCHANGED <<msg, buf, dst, res, nmut>>

DoWriteChanged == Written("changed", "changedWritten", msg.p)

\* the address just decoded from a raw buffer is written
DoWriteDecoded ==
    phase = "rawAddressRead" /\ err = ErrNone
      /\ Written("rawAddressRead", "decodedWritten", res.v)

SeqNumbers == {0, 1, 2, 127, 128, 254, 255}

BuildSequencing ==
    \E snd \in SeqNumbers, rcv \in SeqNumbers, more \in BOOLEAN :
        Given("sequencing", [p |-> NewSequencingSegmenting(snd, rcv, more)], <<>>)

\* n, err := s.Write(b), b := make([]byte, s.MarshalLen())
DoWriteSequencing ==
    /\ phase = "sequencing"
    /\ \E r \in {SequencingSegmenting_Write(
                     msg.p, Zeros(SequencingSegmenting_MarshalLen(msg.p)), 0,
                     SequencingSegmenting_MarshalLen(msg.p))} :
           /\ buf' = r.v
           /\ err' = r.err
    /\ phase' = "sequencingWritten"
    /\ UNCHANGED <<msg, dst, out, res, nmut>>

\* s, n, err := ParseSequencingSegmenting(buf)
DoReadSequencing ==
    /\ err = ErrNone
    /\ Done("sequencingWritten", "sequencingRead", SequencingSegmenting_Read(buf))

NextParams ==
    \/ BuildUnknownTag
    \/ BuildExhausted
    \/ BuildTerminated
    \/ BuildTruncated
    \/ DoParseOptionalParameters
    \/ DoParseXUDTBlock
    \/ BuildWhole
    \/ DoParseOptionalParameter
    \/ BuildAddress
    \/ DoWriteAddress
    \/ DoReadAddress
    \/ BuildRawAddress
    \/ DoReadRawAddress
    \/ DoIndicator
    \/ DoIndicatorByte
    \/ DoProtocolClass
    \/ DoProtocolClassByte
    \/ BuildSegmentation
    \/ DoWriteSegmentation
    \/ DoReadSegmentation
    \/ BuildSCMG
    \/ DoSCMGMarshalBinary
    \/ DoSCMGMarshalTo
    \/ DoParseSCMG
    \/ BuildTitle
    \/ DoWriteTitle
    \/ BuildRawTitle
    \/ DoReadTitle
    \/ ChangeAddress
    \/ DoWriteChanged
    \/ DoWriteDecoded
    \/ BuildSequencing
    \/ DoWriteSequencing
    \/ DoReadSequencing

SpecParams == InitParams /\ [][NextParams]_vars

---------------------------------------------------------------------------
(* Scenario 4: a raw buffer, a connection-oriented message with up to       *)
(* MaxCorrupt edits, is decoded by ParseCC, ParseRLC, ParseDT1 or ParseCR,  *)
(* and a decoded CC or RLC is encoded again.  out holds the input buffer    *)
(* as the decoder leaves it, then the encoding                              *)

MockCCs ==
    {<<2, 0, 3, 117, 3, 32, 72, 2, 0>>,
     <<2, 0, 112, 62, 0, 0, 5, 2, 1, 3, 4, 67, 28, 45, 254, 0>>}
MockRLC == <<5, 0, 112, 62, 0, 0, 5>>
MockDT1 == <<6, 0, 0, 1, 0, 1, 2, 170, 187>>
MockCR == <<1, 0, 0, 2, 2, 2, 4, 2, 66, 8, 15, 1, 170, 0>>

ConnSeeds == MockCCs \cup {MockRLC, MockDT1, MockCR}

InitConn ==
    /\ phase = "raw"
    /\ msg = Nil
    /\ buf \in ConnSeeds
    /\ dst = <<>>
    /\ out = <<>>
    /\ err = ErrNone
    /\ res = Nil
    /\ nmut = 0

\* the buffer grows by as many bytes as a uint8 length cannot tell apart
Pad == Len(buf) < 256 /\ Edited(buf \o Zeros(256))

ParsedConn(p, r) ==
    /\ phase = "raw"
    /\ phase' = p
    /\ res' = r.m
    /\ err' = r.err
    /\ out' = r.b
    /\ UNCHANGED <<msg, buf, dst, nmut>>

DoParseCC == ParsedConn("ParseCC", ParseCC(buf))
DoParseRLC == ParsedConn("ParseRLC", ParseRLC(buf))
DoParseDT1 == ParsedConn("ParseDT1", ParseDT1(buf))
DoParseCR == ParsedConn("ParseCR", ParseCR(buf))

Remarshalled(from, p, r) ==
    /\ phase = from
    /\ err = ErrNone
    /\ out' = r.b
    /\ err' = r.err
    /\ phase' = p
    /\ UNCHANGED <<msg, buf, dst, res, nmut>>

\* out, err := res.MarshalBinary(), res the CC or RLC just decoded
DoRemarshalCC ==
    phase = "ParseCC" /\ err = ErrNone
      /\ Remarshalled("ParseCC", "remarshalCC", CC_MarshalBinary(res))
DoRemarshalRLC ==
    phase = "ParseRLC" /\ err = ErrNone
      /\ Remarshalled("ParseRLC", "remarshalRLC", RLC_MarshalBinary(res))

NextConn ==
    \/ Corrupt
    \/ Truncate
    \/ Pad
    \/ DoParseCC
    \/ DoParseRLC
    \/ DoParseDT1
    \/ DoParseCR
    \/ DoRemarshalCC
    \/ DoRemarshalRLC

SpecConn == InitConn /\ [][NextConn]_vars

---------------------------------------------------------------------------
(* Properties *)

\* NewXUDT was given at least one option: it then sets the terminator
HasOpts(m) == m.kind = "XUDT" /\ m.EndOfOptionalParameters # Nil

\* the index of the first pointer byte and of the first byte after the pointers
FirstPtr(m) == IF m.kind = "UDT" THEN 2 ELSE 3
HeaderLen(m) == IF m.kind = "UDT" THEN 5 ELSE 7

\* the index one past the Data field of the encoding of m
DataEnd(m) ==
    HeaderLen(m) + PartyAddress_MarshalLen(m.CalledPartyAddress)
      + PartyAddress_MarshalLen(m.CallingPartyAddress) + Data_MarshalLen(m.Data)

\* C1: round-trip of constructed messages.  For every UDT built by NewUDT and
\* every XUDT built by NewXUDT, MarshalBinary succeeds, and ParseUDT /
\* ParseXUDT of the bytes succeeds and returns a message equal, field by
\* field, to the original.
C1_RoundTripConstructed ==
    /\ phase = "encoded" => err = ErrNone
    /\ phase = "decoded" => err = ErrNone /\ res = msg

\* C2: truncation monotonicity.  Decoding any strict prefix of the encoding of
\* a built message returns exactly io.ErrUnexpectedEOF; it never succeeds and
\* never faults.
C2_TruncatedDecode ==
    phase = "prefix" => err = ErrUnexpectedEOF /\ res = Nil

\* C3: decode is total.  ParseMessage on any buffer ends without an index or
\* slice fault and returns either a message with a nil error or no message
\* with a non-nil error.
C3_DecodeTotal ==
    phase = "ParseMessage" =>
        /\ err # ErrPanic
        /\ (err = ErrNone) <=> (res # Nil)

\* C4: dispatch.  ParseMessage on an empty buffer returns an error wrapping
\* io.ErrUnexpectedEOF; on first byte 0x09 it returns what the UDT decoder
\* returns for the whole buffer, on first byte 0x11 what the XUDT decoder
\* returns; on every other first byte v it returns UnsupportedTypeError(v)
\* whatever the remaining bytes; and when it succeeds the message's
\* MessageType() is the first byte.
C4_Dispatch ==
    phase = "ParseMessage" =>
        /\ Len(buf) = 0 => err = ErrWrappedEOF /\ res = Nil
        /\ Len(buf) > 0 /\ buf[1] = 9 =>
               err = ParseUDT(buf).err /\ res = ParseUDT(buf).m
        /\ Len(buf) > 0 /\ buf[1] = 17 =>
               err = ParseXUDT(buf).err /\ res = ParseXUDT(buf).m
        /\ Len(buf) > 0 /\ buf[1] \notin {9, 17} =>
               err = UnsupportedTypeError(buf[1]) /\ res = Nil
        /\ err = ErrNone => MessageType(res) = buf[1]

\* an XUDT with an optional block, edited elsewhere than in its type byte,
\* was dispatched to the XUDT decoder and decoded
C4_Witness ==
    /\ phase = "ParseMessage"
    /\ Len(buf) > 0
    /\ buf[1] = 17
    /\ nmut > 0
    /\ err = ErrNone
    /\ res.kind = "XUDT"
    /\ res.Segmentation # Nil

\* C5: round-trip of decoded bytes.  For every buffer that ParseUDT or
\* ParseXUDT accepts, MarshalBinary of the decoded message succeeds and
\* returns exactly that buffer.
C5_RoundTripDecoded ==
    phase = "remarshal" => err = ErrNone /\ out = buf

\* C6: length consistency.  For every message built or decoded,
\* MarshalBinary succeeds and returns exactly MarshalLen() bytes, and
\* MarshalTo writes no byte at or beyond index MarshalLen().
C6_LengthConsistency ==
    /\ phase = "encoded" => err = ErrNone /\ Len(out) = MarshalLen(msg)
    /\ phase = "remarshal" => err = ErrNone /\ Len(out) = MarshalLen(res)
    /\ phase = "marshalTo" /\ Len(dst) >= MarshalLen(msg) =>
           /\ err = ErrNone
           /\ \A k \in (MarshalLen(msg) + 1)..Len(dst) : out[k] = dst[k]

\* C7: encode-side truncation.  For every built message and every
\* destination shorter than MarshalLen(), MarshalTo returns exactly
\* io.ErrUnexpectedEOF and never faults.
C7_EncodeTruncation ==
    phase = "marshalTo" /\ Len(dst) < MarshalLen(msg) => err = ErrUnexpectedEOF

\* C8: no partial write.  Whenever MarshalTo returns the truncation error the
\* destination is byte for byte what it was before the call.
C8_NoPartialWrite ==
    phase = "marshalTo" /\ err = ErrUnexpectedEOF => out = dst

\* the pointers of encoding e of m locate the fields, laid out contiguously
\* in the order Called Party Address, Calling Party Address, Data, options
PointerLayout(m, e) ==
    LET cd == HeaderLen(m)
        cg == cd + PartyAddress_MarshalLen(m.CalledPartyAddress)
        d == cg + PartyAddress_MarshalLen(m.CallingPartyAddress)
        p == FirstPtr(m)
    IN  /\ Len(e) >= DataEnd(m)
        /\ p + At(e, p) = cd
        /\ p + 1 + At(e, p + 1) = cg
        /\ p + 2 + At(e, p + 2) = d
        /\ At(e, cd) = m.CalledPartyAddress.length
        /\ At(e, cg) = m.CallingPartyAddress.length
        /\ At(e, d) = m.Data.length
        /\ IF HasOpts(m)
           THEN /\ p + 3 + At(e, p + 3) = DataEnd(m)
                /\ Len(e) > DataEnd(m)
           ELSE Len(e) = DataEnd(m)

\* C9: pointer layout.  In the encoding of every built UDT and XUDT each
\* pointer byte at index i with value p satisfies i + p = the index of the
\* length byte of the field it locates, the fields being contiguous and in
\* order.
C9_PointerLayout ==
    phase = "encoded" /\ err = ErrNone => PointerLayout(msg, out)

\* C10: the optional-block pointer of XUDT.  Built without options, byte 6 of
\* the encoding is 0 and the encoding ends with Data; built with options,
\* byte 6 is not 0, locates the first byte of the optional block, and the
\* block ends with one 0x00 byte.  Decoded with byte 6 zero, the message has
\* no Segmentation, Importance or terminator, and the bytes after Data play
\* no part.
C10_OptionalPointer ==
    /\ phase = "encoded" /\ err = ErrNone /\ msg.kind = "XUDT" =>
           IF HasOpts(msg)
           THEN /\ At(out, 6) # 0
                /\ 6 + At(out, 6) = DataEnd(msg)
                /\ Len(out) > DataEnd(msg)
                /\ out[Len(out)] = 0
           ELSE /\ At(out, 6) = 0
                /\ Len(out) = DataEnd(msg)
    /\ phase = "ParseXUDT" /\ err = ErrNone /\ At(buf, 6) = 0 =>
           /\ res.Segmentation = Nil
           /\ res.Importance = Nil
           /\ res.EndOfOptionalParameters = Nil
           /\ LET d == U8(At(buf, 5) + 5)
              IN  res = ParseXUDT(Slice(buf, 0, d + 1 + At(buf, d))).m

\* C11: an unknown optional tag is fatal.  When the scan of an optional block
\* reaches, at a parameter boundary, a tag t outside {0x00, 0x03, 0x04, 0x09,
\* 0x0f, 0x10, 0x11, 0x12}, ParseOptionalParameters returns
\* UnsupportedParameterError(t) and no parameters, and decoding an XUDT that
\* carries the block fails with that error.
C11_UnknownTagFatal ==
    /\ phase = "ParseOptionalParameters" /\ msg.case = "unknown" =>
           err = UnsupportedParameterError(msg.tag) /\ res.v = <<>>
    /\ phase = "ParseXUDTBlock" /\ msg.case = "unknown" =>
           err = UnsupportedParameterError(msg.tag) /\ res.m = Nil

\* an unknown tag met after two well-formed parameters, in an XUDT
C11_Witness ==
    /\ phase = "ParseXUDTBlock"
    /\ msg.case = "unknown"
    /\ msg.tag = 255
    /\ Len(msg.pre) = 2
    /\ err = UnsupportedParameterError(255)

\* C12: termination by buffer exhaustion.  ParseOptionalParameters succeeds
\* on a non-empty block of well-formed optional parameters that ends exactly
\* at the end of the buffer without an End-of-Optional-Parameters byte, and
\* returns exactly the parameters read.
C12_BufferExhaustion ==
    phase = "ParseOptionalParameters" /\ msg.case = "exhausted" =>
        err = ErrNone /\ res.v = msg.pre

\* C13: truncated optional parameter.  When the buffer ends inside an
\* optional parameter, after its tag byte but before its value is complete,
\* ParseOptionalParameters returns io.ErrUnexpectedEOF and no parameters, for
\* every supported tag.
C13_TruncatedOptional ==
    phase = "ParseOptionalParameters" /\ msg.case = "truncated" =>
        err = ErrUnexpectedEOF /\ res.v = <<>>

\* C14: Party Address round-trip.  For every address built with an indicator
\* of NewAddressIndicator(hasPC, hasSSN, routeOnSSN, gti), gti in 0..4, and a
\* Global Title exactly when gti # 0, the encoding holds the 2-byte point code
\* iff hasPC and the 1-byte subsystem number iff hasSSN, and decoding it
\* succeeds and yields the same indicator, point code, subsystem number and
\* Global Title.
C14_PartyAddressRoundTrip ==
    /\ phase = "addressWritten" =>
           LET pc == IF msg.args.hasPC THEN 2 ELSE 0
               ssn == IF msg.args.hasSSN THEN 1 ELSE 0
               gt == IF msg.args.gti = GTINoGT THEN 0
                     ELSE gtHeaderLen(msg.args.gti) + msg.args.n
           IN  /\ err = ErrNone
               /\ Len(buf) = 2 + pc + ssn + gt
               /\ msg.args.hasPC => buf[3] * 256 + buf[4] = 405
               /\ msg.args.hasSSN => buf[3 + pc] = 6
    /\ phase = "addressRead" =>
           /\ err = ErrNone
           /\ res.v.Indicator = msg.p.Indicator
           /\ res.v.SignalingPointCode = msg.p.SignalingPointCode
           /\ res.v.SubsystemNumber = msg.p.SubsystemNumber
           /\ res.v.GlobalTitle = msg.p.GlobalTitle

\* C15: Party Address length agreement.  For every buffer b the variable-form
\* decoding accepts, the length byte is len(b) - 1, and MarshalLen() of the
\* decoded address is len(b) and is the consumed byte count reported.
C15_PartyAddressLength ==
    phase = "rawAddressRead" /\ err = ErrNone =>
        /\ buf[1] = Len(buf) - 1
        /\ PartyAddress_MarshalLen(res.v) = Len(buf)
        /\ res.n = Len(buf)

\* C16: address indicator bits.  For all hasPC, hasSSN, routeOnSSN and every
\* gti in 0..15 an address whose indicator is NewAddressIndicator(hasPC,
\* hasSSN, routeOnSSN, gti) reports the four inputs through HasPC, HasSSN,
\* RouteOnSSN and GTI, bit 7 of the indicator is 0, and for every indicator
\* byte exactly one of RouteOnGT and RouteOnSSN is true.
C16_IndicatorBits ==
    /\ phase = "indicator" =>
           /\ HasPC(msg.p) = msg.hasPC
           /\ HasSSN(msg.p) = msg.hasSSN
           /\ RouteOnSSN(msg.p) = msg.routeOnSSN
           /\ GTI(msg.p) = msg.gti
           /\ Bit(msg.p.Indicator, 7) = 0
    /\ phase = "indicatorByte" => RouteOnGT(msg.p) # RouteOnSSN(msg.p)

\* an indicator with a GTI above 7, every flag set
C16_Witness ==
    /\ phase = "indicator"
    /\ msg.gti = 15
    /\ msg.hasPC /\ msg.hasSSN /\ msg.routeOnSSN
    /\ msg.p.Indicator = 127

C18_SegmentationRoundTrip ==
    /\ phase = "segmentationWritten" =>
           /\ err = ErrNone
           /\ buf = <<16, 4, (IF msg.first THEN 128 ELSE 0) + msg.cls * 64 + msg.rem,
                      (msg.lrn \div 65536) % 256, (msg.lrn \div 256) % 256,
                      msg.lrn % 256>>
    /\ phase = "segmentationRead" =>
           /\ err = ErrNone
           /\ res.v.FirstSegment = msg.first
           /\ res.v.Class = msg.cls
           /\ res.v.RemainingSegments = msg.rem
           /\ res.v.LocalReference = msg.lrn

\* C19: message-type octet.  For every message m returned by ParseUDT,
\* ParseXUDT or ParseMessage, the first octet of m.MarshalBinary() is
\* m.MessageType().
C19_TypeOctet ==
    phase = "remarshal" /\ err = ErrNone => out[1] = MessageType(res)

\* C20: SCMG size by sub-type.  An SCMG encodes to exactly 6 bytes when its
\* type is SSC and to exactly 5 bytes otherwise; the 6th byte, present only
\* for SSC, is the congestion level; MarshalTo into a shorter buffer and
\* ParseSCMG of fewer bytes both return io.ErrUnexpectedEOF, the one writing
\* nothing and the other returning no message.
C20_SCMGSize ==
    /\ phase = "scmgEncoded" =>
           /\ err = ErrNone
           /\ Len(out) = (IF msg.Type = SCMGTypeSSC THEN 6 ELSE 5)
           /\ msg.Type = SCMGTypeSSC => out[6] = msg.SCCPCongestionLevel
    /\ phase = "scmgMarshalTo"
         /\ Len(dst) < (IF msg.Type = SCMGTypeSSC THEN 6 ELSE 5) =>
           err = ErrUnexpectedEOF /\ out = dst
    /\ phase = "scmgParsed"
         /\ Len(buf) < (IF msg.Type = SCMGTypeSSC THEN 6 ELSE 5) =>
           err = ErrUnexpectedEOF /\ res.m = Nil

\* an SSC cut to 5 bytes was refused
C20_Witness ==
    /\ phase = "scmgParsed"
    /\ msg.Type = SCMGTypeSSC
    /\ Len(buf) = 5
    /\ Len(out) = 6
    /\ err = ErrUnexpectedEOF

\* C21: decode does not modify its input.  For every decode operation and
\* every input buffer, the buffer's contents after the call equal its
\* contents before the call, whether decoding succeeds or fails.
C21_DecodeKeepsInput ==
    phase \in {"ParseCC", "ParseRLC", "ParseDT1", "ParseCR"} => out = buf

\* C22: connection-oriented re-encoding.  For every buffer b that ParseCC or
\* ParseRLC accepts, MarshalBinary of the decoded message succeeds and
\* returns exactly b.
C22_ConnReencode ==
    phase \in {"remarshalCC", "remarshalRLC"} => err = ErrNone /\ out = buf

\* the index one past the field whose length byte is at index s of b
FieldEnd(b, s) == s + 1 + At(b, s)

\* the regions the pointer bytes of b locate lie after the pointer bytes and
\* inside b, in the order Called Party Address, Calling Party Address, Data,
\* optional block, none overlapping the one before; h is the header length
\* and the pointers are the bytes before it
RegionsOrdered(b, h, hasOptPtr) ==
    LET n == IF hasOptPtr THEN 4 ELSE 3
        start(k) == (h - n + k - 1) + At(b, h - n + k - 1)
    IN  /\ Len(b) >= h
        /\ h <= start(1) /\ start(1) < Len(b)
        /\ FieldEnd(b, start(1)) <= start(2) /\ start(2) < Len(b)
        /\ FieldEnd(b, start(2)) <= start(3) /\ start(3) < Len(b)
        /\ FieldEnd(b, start(3)) <= Len(b)
        /\ hasOptPtr /\ At(b, h - 1) # 0 =>
               FieldEnd(b, start(3)) <= start(4) /\ start(4) < Len(b)

\* C23: pointer validation on decode.  ParseUDT and ParseXUDT reject with a
\* truncation error every buffer in which the field regions located by the
\* pointer bytes are not in increasing, non-overlapping order or do not lie
\* inside the buffer and after the pointer bytes.
C23_PointerValidation ==
    /\ phase = "ParseUDT" /\ ~RegionsOrdered(buf, 5, FALSE) =>
           err = ErrUnexpectedEOF
    /\ phase = "ParseXUDT" /\ ~RegionsOrdered(buf, 7, TRUE) =>
           err = ErrUnexpectedEOF

\* C24: optional-block cursor.  For every non-terminator parameter that
\* ParseOptionalParameter decodes, of any supported tag, the consumed byte
\* count it reports is exactly 2 + the parameter's length byte, so that the
\* cursor lands on the tag byte of what follows and never beyond the end of
\* the buffer.
C24_OptionalCursor ==
    phase = "ParseOptionalParameter" =>
        /\ err = ErrNone
        /\ res.n = 2 + buf[2]
        /\ res.n = Len(msg.whole)
        /\ res.n <= Len(buf)

\* C25: the terminator is last.  In every successful result of
\* ParseOptionalParameters the parameters appear in input order, at most one
\* element has the End-of-Optional-Parameters code, that element is the last
\* one and stands for a 0x00 tag byte of the input, at the cursor returned,
\* and no byte after that terminator influences the result.
C25_TerminatorLast ==
    /\ phase = "ParseOptionalParameters" /\ err = ErrNone =>
           \A i \in 1..Len(res.v) :
               res.v[i].p.code = PCodeEndOfOptionalParameters =>
                   /\ i = Len(res.v)
                   /\ res.n < Len(buf)
                   /\ At(buf, res.n) = 0
    /\ phase = "ParseOptionalParameters" /\ msg.case = "terminated" =>
           /\ err = ErrNone
           /\ res.v = msg.pre \o <<EopOpt>>
           /\ res.n = Len(BlockBytes(msg.pre))

\* C26: derived length byte.  After any sequence of construction, decoding,
\* and changes to the indicator, point code, subsystem number or Global
\* Title, every write of a PartyAddress emits a length byte equal to the
\* number of bytes written after it, MarshalLen() - 1 of the fields at the
\* time of the write, without the caller having to invoke SetLength.
C26_DerivedLength ==
    phase \in {"changedWritten", "decodedWritten"} /\ err = ErrNone =>
        out[1] = Len(out) - 1

\* C27: Global Title shape.  For a Global Title of indicator g the encoding
\* is h(g) header bytes, h = 1, 1, 2, 3 for g = 1, 2, 3, 4, followed by
\* AddressInformation, with no placeholder for an absent sub-field; decoding
\* a slice with a fresh Global Title of indicator g fails with a truncation
\* error iff the slice is shorter than h(g), and otherwise stores every byte
\* after the header as AddressInformation and reports the whole slice length
\* as consumed.
C27_GlobalTitleShape ==
    /\ phase = "titleWritten" =>
           /\ err = ErrNone
           /\ buf = (CASE msg.g = 1 -> <<4>>
                       [] msg.g = 2 -> <<9>>
                       [] msg.g = 3 -> <<9, 18>>
                       [] msg.g = 4 -> <<9, 18, 4>>) \o AddrInfo(msg.n)
    /\ phase = "titleRead" =>
           LET h == <<1, 1, 2, 3>>[msg.g]
           IN  IF Len(buf) < h
               THEN err = ErrUnexpectedEOF
               ELSE /\ err = ErrNone
                    /\ res.v.AddressInformation = SubSeq(buf, h + 1, Len(buf))
                    /\ res.n = Len(buf)

\* a Global Title of indicator 3 with digits was written, and a slice one
\* byte short of the header of indicator 4 was refused
C27_Witness ==
    \/ /\ phase = "titleWritten"
       /\ msg.g = 3
       /\ msg.n = MaxInfoLen
       /\ Len(buf) = 2 + MaxInfoLen
    \/ /\ phase = "titleRead"
       /\ msg.g = 4
       /\ Len(buf) = 2
       /\ err = ErrUnexpectedEOF

\* C28: sequence-number masks agree.  For every SequencingSegmenting built by
\* NewSequencingSegmenting(snd, rcv, more), writing it and reading the two
\* written bytes back yields the same SendSequenceNumber,
\* ReceiveSequenceNumber and MoreData.
C28_SequencingRoundTrip ==
    phase = "sequencingRead" =>
        /\ err = ErrNone
        /\ res.v.SendSequenceNumber = msg.p.SendSequenceNumber
        /\ res.v.ReceiveSequenceNumber = msg.p.ReceiveSequenceNumber
        /\ res.v.MoreData = msg.p.MoreData

\* C29: the encoding is independent of the destination's prior contents.  A
\* successful MarshalTo into a buffer of sufficient length, whatever it held
\* before, leaves in its first MarshalLen() positions the bytes of
\* MarshalBinary(); no byte of the encoded region retains or mixes in a
\* prior value.
C29_DestinationIndependent ==
    phase = "marshalTo" /\ err = ErrNone =>
        /\ Len(out) >= MarshalLen(msg)
        /\ Slice(out, 0, MarshalLen(msg)) = MarshalBinary(msg).b

\* the pointer values NewUDT / NewXUDT would store were they not reduced to
\* one byte: the distance from each pointer byte to the field it locates
TruePointers(m) ==
    LET cd == HeaderLen(m)
        cg == cd + PartyAddress_MarshalLen(m.CalledPartyAddress)
        d == cg + PartyAddress_MarshalLen(m.CallingPartyAddress)
        p == FirstPtr(m)
    IN  <<cd - p, cg - (p + 1), d - (p + 2),
          IF HasOpts(m) THEN DataEnd(m) - (p + 3) ELSE 0>>

StoredPointers(m) ==
    <<m.ptr1, m.ptr2, m.ptr3, IF m.kind = "XUDT" THEN m.ptr4 ELSE 0>>

\* every located offset is a value of one byte
OffsetsFit(m) ==
    \A i \in 1..4 : TruePointers(m)[i] + FirstPtr(m) + i - 1 < 256

\* C30: pointer arithmetic does not wrap.  For every UDT and XUDT built from
\* individually encodable fields the stored pointers and the offsets the
\* encoder and the decoder derive from them are the true byte offsets of the
\* located fields; a message whose offsets do not fit in one byte is
\* rejected with an error, never encoded or decoded with offsets reduced
\* modulo 256.
C30_NoPointerWrap ==
    /\ phase = "built" /\ OffsetsFit(msg) =>
           StoredPointers(msg) = TruePointers(msg)
    /\ phase = "encoded" =>
           IF OffsetsFit(msg)
           THEN err = ErrNone => PointerLayout(msg, out)
           ELSE err.kind \notin {"nil", "panic"}
    /\ phase = "decoded" =>
           /\ OffsetsFit(msg)
           /\ err # ErrPanic
           /\ err = ErrNone => StoredPointers(res) = TruePointers(msg)

=============================================================================
